---- MODULE Spec2Model ----
(***************************************************************************)
(* DigiHesabYar: reconciliation of a marketplace spreadsheet into ledger   *)
(* lines (back/services.py), tiered pricing (back/services.py,             *)
(* back/models.py), profit recalculation and wallet payment (views.py).    *)
(*                                                                         *)
(* Persian sheet names and characters of the source are written here in    *)
(* ASCII: a sheet name by its English gloss, a non-ASCII character by its  *)
(* code point ("U+06F1" is the Persian digit one).                         *)
(***************************************************************************)
EXTENDS Integers, Sequences, FiniteSets, TLC

VARIABLES
    \* --- process_invoice_file / parse_invoice_excel (back/services.py) ---
    pc,             \* position of process_invoice_file
    wb,             \* the workbook: per sheet call, its status and the data rows read
    sheetIdx,       \* index of the sheet call parse_invoice_excel is at
    inSheet,        \* TRUE while the row loop of the current sheet runs
    count_rows,     \* count_rows of the current sheet
    rows_map,       \* rows_map: identity -> position of its ParsedRow in parsed_rows
    parsed_rows,    \* parsed_rows: the ParsedRow objects in first-seen order
    log_lines,      \* log_lines
    wb_closed,      \* number of wb.close() calls
    txRows,         \* InvoiceRow table as seen inside the open transaction
    returned_rows,  \* row count returned by process_invoice_file (-1: not returned)
    \* --- record store ---
    invoice,        \* the InvoiceFile record
    invoiceRows,    \* committed InvoiceRow records of the invoice
    tiers,          \* the PricingTier table
    productPrices,  \* ProductPrice records of the user: variant code -> purchase_price
    \* --- pricing calls ---
    priceCall,      \* last pricing call: argument and the two functions' results
    \* --- wallet (views.py) ---
    wallet,         \* committed Wallet record: balance, opening balance, holder of its row lock
    walletTx,       \* committed WalletTransaction records
    req,            \* per request: position and local variables of invoice_pay
    \* --- repeated runs and readers of one invoice ---
    run,            \* number of the process_invoice_file run, and what earlier runs left
    reader,         \* invoice_detail: position, and the invoice and rows it has read
    \* --- other calls ---
    pricesReq,      \* the invoice_prices requests made so far
    norm,           \* normalize_number: argument and outcome of the call
    coupon,         \* Coupon.is_valid_now: the coupon, the time of the call and its result
    ws,             \* one sheet as openpyxl gives it (all its rows), and the header and columns found in it
    export,         \* export_invoice_excel requests and admin actions on the invoice made so far
    topup           \* per request: position and local variables of wallet_topup_view

vars == <<pc, wb, sheetIdx, inSheet, count_rows, rows_map, parsed_rows, log_lines,
          wb_closed, txRows, returned_rows, invoice, invoiceRows, tiers, productPrices, priceCall, wallet, walletTx, req,
          run, reader, pricesReq, norm, coupon, ws, export, topup>>

mergeVars == <<wb, sheetIdx, inSheet, count_rows, rows_map, parsed_rows, log_lines, wb_closed>>
\* the state no step of parse_invoice_excel or process_invoice_file touches
userVars == <<wallet, walletTx, req, productPrices, run, reader, pricesReq, norm, coupon, ws, export, topup>>

-----------------------------------------------------------------------------
(* Bounds of the model *)

MaxRows == 2          \* data rows read from the workbook in one run
MaxSheets == 2        \* sheets of the vocabulary present in the workbook
MaxTiers == 2         \* tiers in a generated PricingTier table
MaxTierRows == 3      \* largest min_rows / max_rows of a generated tier
NumRequests == 2      \* invoice_pay requests in flight
MaxPriceRows == 2     \* rows of an uploaded price spreadsheet
MaxPriceRequests == 3 \* invoice_prices requests
MaxRuns == 2          \* runs of process_invoice_file on one invoice
MaxLen == 3           \* characters of a generated text
MaxTime == 2          \* days on the clock of a coupon
MaxUses == 2          \* largest max_uses / used_count of a coupon
MaxSheetRows == 3     \* rows of a generated sheet, header and rows above it included
MaxExports == 2       \* export_invoice_excel requests
MaxAdminActions == 2  \* admin actions on the invoice
NumTopups == 2        \* wallet_topup_view requests in flight

-----------------------------------------------------------------------------
(* Cell values of openpyxl (values_only=True): None, int, float, str.      *)
(* A float is kept as twice its value (halves) or as nan / inf; a str is   *)
(* the sequence of its characters.                                         *)

NoneCell == [kind |-> "none", v |-> 0, s |-> <<>>]
IntCell(n) == [kind |-> "int", v |-> n, s |-> <<>>]
FloatCell(twice) == [kind |-> "float", v |-> twice, s |-> <<>>]
NanCell == [kind |-> "nan", v |-> 0, s |-> <<>>]
InfCell == [kind |-> "inf", v |-> 0, s |-> <<>>]
StrCell(chars) == [kind |-> "str", v |-> 0, s |-> chars]

AsciiDigit == <<"0", "1", "2", "3", "4", "5", "6", "7", "8", "9">>
PersianDigit == <<"U+06F0", "U+06F1", "U+06F2", "U+06F3", "U+06F4",
                  "U+06F5", "U+06F6", "U+06F7", "U+06F8", "U+06F9">>
ArabicDigit == <<"U+0660", "U+0661", "U+0662", "U+0663", "U+0664",
                 "U+0665", "U+0666", "U+0667", "U+0668", "U+0669">>
Whitespace == {" "}

IndexIn(seq, c) == CHOOSE i \in 1..Len(seq) : seq[i] = c
InSeq(seq, c) == \E i \in 1..Len(seq) : seq[i] = c

\* str.maketrans tables and str.translate
PERSIAN_DIGITS(c) == IF InSeq(PersianDigit, c) THEN AsciiDigit[IndexIn(PersianDigit, c)] ELSE c
ARABIC_DIGITS(c) == IF InSeq(ArabicDigit, c) THEN AsciiDigit[IndexIn(ArabicDigit, c)] ELSE c
Translate(s) == [i \in 1..Len(s) |-> ARABIC_DIGITS(PERSIAN_DIGITS(s[i]))]

\* s.replace(",", "").replace(U+066C, "")
RemoveSeparators(s) == SelectSeq(s, LAMBDA c : c # "," /\ c # "U+066C")

\* s.strip()
RECURSIVE LStrip(_)
LStrip(s) == IF s # <<>> /\ Head(s) \in Whitespace THEN LStrip(Tail(s)) ELSE s
RECURSIVE RStrip(_)
RStrip(s) == IF s # <<>> /\ s[Len(s)] \in Whitespace THEN RStrip(SubSeq(s, 1, Len(s) - 1)) ELSE s
Strip(s) == RStrip(LStrip(s))

\* re.sub(r"[^\d]", "", s)
OnlyDigits(s) == SelectSeq(s, LAMBDA c : InSeq(AsciiDigit, c))

\* int(s) for a string of ASCII digits
RECURSIVE DigitsToInt(_)
DigitsToInt(s) ==
    IF s = <<>> THEN 0
    ELSE 10 * DigitsToInt(SubSeq(s, 1, Len(s) - 1)) + (IndexIn(AsciiDigit, s[Len(s)]) - 1)

\* int(round(val)) for a float given in halves: round half to even
RoundHalves(twice) ==
    IF twice % 2 = 0 THEN twice \div 2
    ELSE LET m == (twice - 1) \div 2 IN IF m % 2 = 0 THEN m ELSE m + 1

RaisedOverflow == [raised |-> TRUE, value |-> 0]
Returned(n) == [raised |-> FALSE, value |-> n]

\* a _normalize_number that takes a minus sign anywhere in the text for the sign
NormalizeOutcomeAnyMinus(val) ==
    CASE val.kind = "none" -> Returned(0)
      [] val.kind = "int" -> Returned(val.v)
      [] val.kind = "nan" -> Returned(0)
      [] val.kind = "float" -> Returned(RoundHalves(val.v))
      [] val.kind = "inf" -> RaisedOverflow
      [] OTHER ->
            LET s1 == RemoveSeparators(val.s)
                s2 == Translate(s1)
                s3 == Strip(s2)
                is_negative == InSeq(s3, "-")
                s4 == OnlyDigits(s3)
            IN  IF s4 = <<>> THEN Returned(0)
                ELSE Returned(IF is_negative THEN 0 - DigitsToInt(s4) ELSE DigitsToInt(s4))

\* _normalize_number, with its outcome: the int returned or the exception raised
NormalizeOutcome(val) ==
    CASE val.kind = "none" -> Returned(0)
      [] val.kind = "int" -> Returned(val.v)
      [] val.kind = "nan" -> Returned(0)
      [] val.kind = "float" -> Returned(RoundHalves(val.v))
      [] val.kind = "inf" -> RaisedOverflow
      [] OTHER ->
            LET s1 == RemoveSeparators(val.s)
                s2 == Translate(s1)
                s3 == Strip(s2)
                is_negative == s3 # <<>> /\ Head(s3) = "-"
                s4 == OnlyDigits(s3)
            IN  IF s4 = <<>> THEN Returned(0)
                ELSE Returned(IF is_negative THEN 0 - DigitsToInt(s4) ELSE DigitsToInt(s4))

_normalize_number(val) == NormalizeOutcome(val).value

-----------------------------------------------------------------------------
(* Pricing tiers *)

NoMaxRows == 0 - 1      \* max_rows IS NULL

\* a QuerySet ordered by min_rows: the tiers in some order ascending in min_rows
\* (the store is free to order equal min_rows either way)
IsAscending(q) == \A i \in 1..(Len(q) - 1) : q[i].min_rows <= q[i + 1].min_rows

OrderByMinRows(table) ==
    {q \in [1..Cardinality(table) -> table] :
        /\ \A t \in table : \E i \in DOMAIN q : q[i] = t
        /\ IsAscending(q)}

TierMatchesLt(tier, row_count) ==
    IF tier.max_rows = NoMaxRows THEN tier.min_rows <= row_count
    ELSE tier.min_rows <= row_count /\ row_count < tier.max_rows

\* the test of one tier: services.py 137-142, models.py 117-118
TierMatches(tier, row_count) ==
    IF tier.max_rows = NoMaxRows THEN tier.min_rows <= row_count
    ELSE tier.min_rows <= row_count /\ row_count <= tier.max_rows

RECURSIVE FirstMatch(_, _)
FirstMatch(q, row_count) ==
    IF q = <<>> THEN 0
    ELSE IF TierMatches(Head(q), row_count) THEN Head(q).price_per_invoice
    ELSE FirstMatch(Tail(q), row_count)

\* services.calculate_price_for_row_count over the ordered query result q
calculate_price_for_row_count(q, row_count) ==
    IF row_count <= 0 THEN 0 ELSE FirstMatch(q, row_count)

\* InvoiceFile.calculate_price_from_tiers: filter the ordered query, take .first()
calculate_price_from_tiers(q, row_count) ==
    IF row_count <= 0 THEN 0
    ELSE LET f == SelectSeq(q, LAMBDA t : TierMatches(t, row_count))
         IN  IF f # <<>> THEN Head(f).price_per_invoice ELSE 0

-----------------------------------------------------------------------------
(* parse_invoice_excel: the sheet calls, in the order of the source        *)

Call(name, sale_type, kind, is_return_sheet) ==
    [sheet_name |-> name, sale_type |-> sale_type, kind |-> kind,
     is_return_sheet |-> is_return_sheet]

\* services.py 260-267 (_read_sales_sheet) and 353-407 (_apply_cost_sheet)
SheetCalls == <<
    Call("sales", "cash", "sales", FALSE),
    Call("sales returns", "cash", "sales", TRUE),
    Call("credit sales", "credit", "sales", FALSE),
    Call("credit sales returns", "credit", "sales", TRUE),
    Call("sales commission", "cash", "commission", FALSE),
    Call("credit sales commission", "credit", "commission", FALSE),
    Call("sales commission reversal", "cash", "commission", TRUE),
    Call("credit sales commission reversal", "credit", "commission", TRUE),
    Call("shipping cost", "cash", "shipping", FALSE),
    Call("credit shipping cost", "credit", "shipping", FALSE),
    Call("shipping cost reversal", "cash", "shipping", TRUE),
    Call("credit shipping cost reversal", "credit", "shipping", TRUE),
    Call("processing cost", "cash", "processing", FALSE),
    Call("credit processing cost", "credit", "processing", FALSE),
    Call("processing cost reversal", "cash", "processing", TRUE),
    Call("credit processing cost reversal", "credit", "processing", TRUE),
    Call("platform development revenue", "credit", "platform_dev", FALSE),
    Call("platform development revenue reversal", "credit", "platform_dev", TRUE),
    Call("customer return cost", "cash", "shipping", FALSE) >>

NumCalls == Len(SheetCalls)

\* str(x) of an int, as characters
RECURSIVE NatToChars(_)
NatToChars(n) == IF n < 10 THEN <<AsciiDigit[n + 1]>>
                 ELSE NatToChars(n \div 10) \o <<AsciiDigit[(n % 10) + 1]>>
IntToChars(n) == IF n < 0 THEN <<"-">> \o NatToChars(0 - n) ELSE NatToChars(n)

\* str(cell) of an order id or variant code cell
Str(cell) == IF cell.kind = "int" THEN IntToChars(cell.v) ELSE cell.s

Abs(n) == IF n < 0 THEN 0 - n ELSE n
Max0(n) == IF n > 0 THEN n ELSE 0

\* dataclass ParsedRow
ParsedRow(sale_type, order_id, dkpc, title, is_return) ==
    [sale_type |-> sale_type, order_id |-> order_id, dkpc |-> dkpc, title |-> title,
     sale_amount |-> 0, is_return |-> is_return, commission_amount |-> 0,
     shipping_fee |-> 0, processing_fee |-> 0, platform_dev_revenue |-> 0]

Key(sale_type, order_id, dkpc) == <<sale_type, Str(order_id), Str(dkpc)>>
KeyOf(line) == <<line.sale_type, line.order_id, line.dkpc>>

\* the merger's state: rows_map (identity -> position in parsed_rows) and parsed_rows
EmptyMerge == [rows_map |-> <<>>, parsed_rows |-> <<>>]
HasKey(m, key) == \E i \in DOMAIN m.rows_map : m.rows_map[i].key = key
PosOf(m, key) == (CHOOSE i \in DOMAIN m.rows_map : m.rows_map[i].key = key)
Line(m, key) == m.parsed_rows[m.rows_map[PosOf(m, key)].pos]

\* rows_map[key] = row; parsed_rows.append(row)
AddLine(m, key, row) ==
    [rows_map |-> Append(m.rows_map, [key |-> key, pos |-> Len(m.parsed_rows) + 1]),
     parsed_rows |-> Append(m.parsed_rows, row)]

\* get_or_create: the merger state after the call (the row returned is Line(m', key))
get_or_create(m, sale_type, order_id, dkpc, title, is_return) ==
    LET key == Key(sale_type, order_id, dkpc) IN
    IF ~HasKey(m, key)
    THEN AddLine(m, key,
                 ParsedRow(sale_type, Str(order_id), Str(dkpc),
                           IF title.kind # "none" THEN Str(title) ELSE <<>>, is_return))
    ELSE m

\* parsed.<field> += delta on the line of key
AddTo(m, key, field, delta) ==
    LET p == m.rows_map[PosOf(m, key)].pos IN
    [m EXCEPT !.parsed_rows[p] = [@ EXCEPT ![field] = @ + delta]]

-----------------------------------------------------------------------------
(* The row loops of _read_sales_sheet and _apply_cost_sheet *)

\* a test that skips only rows without order id
RowSkippedOrderOnly(row) == row.order_id.kind = "none"

\* services.py 228-229, 317-318
RowSkipped(row) == row.order_id.kind = "none" \/ row.dkpc.kind = "none"

\* a sales row that overwrites sale_amount instead of accumulating it
read_sales_row_assign(m, sale_type, is_return_sheet, row) ==
    IF RowSkipped(row) THEN m
    ELSE
        LET amount == _normalize_number(row.amount_raw)
            key == Key(sale_type, row.order_id, row.dkpc)
            is_return == is_return_sheet \/ (IF HasKey(m, key) THEN Line(m, key).is_return ELSE FALSE)
            m1 == get_or_create(m, sale_type, row.order_id, row.dkpc, row.title, is_return)
            old == Line(m1, key).sale_amount
        IN  IF is_return_sheet THEN AddTo(m1, key, "sale_amount", (0 - Abs(amount)) - old)
            ELSE AddTo(m1, key, "sale_amount", amount - old)

\* one iteration of the row loop of _read_sales_sheet (services.py 222-253)
read_sales_row(m, sale_type, is_return_sheet, row) ==
    IF RowSkipped(row) THEN m
    ELSE
        LET amount == _normalize_number(row.amount_raw)
            key == Key(sale_type, row.order_id, row.dkpc)
            is_return == is_return_sheet \/ (IF HasKey(m, key) THEN Line(m, key).is_return ELSE FALSE)
            m1 == get_or_create(m, sale_type, row.order_id, row.dkpc, row.title, is_return)
        IN  IF is_return_sheet THEN AddTo(m1, key, "sale_amount", 0 - Abs(amount))
            ELSE AddTo(m1, key, "sale_amount", amount)

CostField(kind) ==
    CASE kind = "commission" -> "commission_amount"
      [] kind = "shipping" -> "shipping_fee"
      [] kind = "processing" -> "processing_fee"
      [] kind = "platform_dev" -> "platform_dev_revenue"

\* a cost row that always creates its line
apply_cost_row_always(m, sale_type, kind, is_return_sheet, row) ==
    IF RowSkipped(row) THEN m
    ELSE
        LET sign == IF is_return_sheet THEN 0 - 1 ELSE 1
            amount == _normalize_number(row.amount_raw) * sign
            key == Key(sale_type, row.order_id, row.dkpc)
            m1 == AddLine(m, key, ParsedRow(sale_type, Str(row.order_id), Str(row.dkpc), <<>>, FALSE))
            p == Len(m1.parsed_rows)
        IN  [m1 EXCEPT !.parsed_rows[p] = [@ EXCEPT ![CostField(kind)] = @ + amount]]

\* a cost row that accumulates the amount of a reversal sheet unsigned
apply_cost_row_unsigned(m, sale_type, kind, is_return_sheet, row) ==
    IF RowSkipped(row) THEN m
    ELSE
        LET amount == _normalize_number(row.amount_raw)
            key == Key(sale_type, row.order_id, row.dkpc)
            m1 == IF ~HasKey(m, key)
                  THEN AddLine(m, key, ParsedRow(sale_type, Str(row.order_id), Str(row.dkpc), <<>>, FALSE))
                  ELSE m
        IN  AddTo(m1, key, CostField(kind), amount)

\* one iteration of the row loop of _apply_cost_sheet (services.py 312-346)
apply_cost_row(m, sale_type, kind, is_return_sheet, row) ==
    IF RowSkipped(row) THEN m
    ELSE
        LET sign == IF is_return_sheet THEN 0 - 1 ELSE 1
            amount == _normalize_number(row.amount_raw) * sign
            key == Key(sale_type, row.order_id, row.dkpc)
            m1 == IF ~HasKey(m, key)
                  THEN AddLine(m, key, ParsedRow(sale_type, Str(row.order_id), Str(row.dkpc), <<>>, FALSE))
                  ELSE m
        IN  AddTo(m1, key, CostField(kind), amount)

\* the row of sheet call c folded into the merger state
ApplyRow(m, c, row) ==
    IF c.kind = "sales" THEN read_sales_row(m, c.sale_type, c.is_return_sheet, row)
    ELSE apply_cost_row(m, c.sale_type, c.kind, c.is_return_sheet, row)

-----------------------------------------------------------------------------
(* process_invoice_file: finalisation of one ParsedRow into an InvoiceRow  *)

\* a finalisation that keeps the accumulated costs of a non-return line unclamped
InvoiceRowUnclamped(pr) ==
    LET is_return == pr.is_return \/ pr.sale_amount <= 0 IN
    [sale_type |-> pr.sale_type, order_id |-> pr.order_id, dkpc |-> pr.dkpc, title |-> pr.title,
     sale_amount |-> IF is_return THEN pr.sale_amount ELSE Max0(pr.sale_amount),
     commission_amount |-> pr.commission_amount,
     shipping_fee |-> pr.shipping_fee,
     processing_fee |-> pr.processing_fee,
     platform_dev_revenue |-> pr.platform_dev_revenue,
     tax_amount |-> IF is_return THEN 0 ELSE (pr.commission_amount + pr.processing_fee) \div 10,
     is_return |-> is_return, purchase_price |-> 0, profit |-> 0]

\* a finalisation that classifies by the sticky flag alone
InvoiceRowFlagOnly(pr) ==
    LET is_return == pr.is_return
        commission_amount == IF is_return THEN 0 ELSE Max0(pr.commission_amount)
        processing_fee == IF is_return THEN 0 ELSE Max0(pr.processing_fee)
    IN
    [sale_type |-> pr.sale_type, order_id |-> pr.order_id, dkpc |-> pr.dkpc, title |-> pr.title,
     sale_amount |-> IF is_return THEN 0 ELSE Max0(pr.sale_amount),
     commission_amount |-> commission_amount,
     shipping_fee |-> IF is_return THEN 0 ELSE Max0(pr.shipping_fee),
     processing_fee |-> processing_fee,
     platform_dev_revenue |-> IF is_return THEN 0 ELSE Max0(pr.platform_dev_revenue),
     tax_amount |-> IF is_return THEN 0 ELSE (commission_amount + processing_fee) \div 10,
     is_return |-> is_return, purchase_price |-> 0, profit |-> 0]

\* services.py 456-494: the InvoiceRow created for pr (purchase_price, profit: model defaults)
InvoiceRowOf(pr) ==
    LET is_return == pr.is_return \/ pr.sale_amount <= 0
        sale_amount == IF is_return THEN 0 ELSE Max0(pr.sale_amount)
        commission_amount == IF is_return THEN 0 ELSE Max0(pr.commission_amount)
        shipping_fee == IF is_return THEN 0 ELSE Max0(pr.shipping_fee)
        processing_fee == IF is_return THEN 0 ELSE Max0(pr.processing_fee)
        platform_dev_revenue == IF is_return THEN 0 ELSE Max0(pr.platform_dev_revenue)
        tax_amount == IF is_return THEN 0 ELSE (commission_amount + processing_fee) \div 10
    IN
    [sale_type |-> pr.sale_type, order_id |-> pr.order_id, dkpc |-> pr.dkpc, title |-> pr.title,
     sale_amount |-> sale_amount, commission_amount |-> commission_amount,
     shipping_fee |-> shipping_fee, processing_fee |-> processing_fee,
     platform_dev_revenue |-> platform_dev_revenue, tax_amount |-> tax_amount,
     is_return |-> is_return, purchase_price |-> 0, profit |-> 0]

-----------------------------------------------------------------------------
(* Inputs: the rows a sheet may hold *)

Row(order_id, dkpc, title, amount_raw) ==
    [order_id |-> order_id, dkpc |-> dkpc, title |-> title, amount_raw |-> amount_raw]

Amount1234 == StrCell(<<"1", ",", "2", "3", "4">>)
Amount100 == StrCell(<<"1", "0", "0">>)
AmountNeg40 == IntCell(0 - 40)
DkpcA == StrCell(<<"A">>)
DkpcB == StrCell(<<"B">>)

\* data rows of a sales or returns sheet: order 7 as number and as text, two variant
\* codes, with and without title, text and negative amounts, a row without order id
SalesRows == {Row(IntCell(7), DkpcA, NoneCell, Amount1234),
              Row(StrCell(<<"7">>), DkpcA, StrCell(<<"T">>), Amount100),
              Row(IntCell(7), DkpcB, NoneCell, Amount100),
              Row(IntCell(7), DkpcA, NoneCell, AmountNeg40),
              Row(NoneCell, DkpcA, NoneCell, Amount100)}

\* data rows of a cost sheet, the last without variant code
CostRows == {Row(IntCell(7), DkpcA, NoneCell, Amount100),
             Row(StrCell(<<"7">>), DkpcB, NoneCell, Amount1234),
             Row(IntCell(7), DkpcA, NoneCell, AmountNeg40),
             Row(IntCell(7), NoneCell, NoneCell, Amount100)}

RowsOf(c) == IF c.kind = "sales" THEN SalesRows ELSE CostRows

-----------------------------------------------------------------------------
(* State shared by the specifications *)

\* tests.py 53-72 (PricingTierTests.setUp)
Tier(min_rows, max_rows, price) ==
    [min_rows |-> min_rows, max_rows |-> max_rows, price_per_invoice |-> price]
TestTiers == {Tier(1, 500, 490000), Tier(501, 1000, 890000), Tier(1001, NoMaxRows, 1290000)}

UnreadWorkbook == [i \in 1..NumCalls |-> [status |-> "unread", rows |-> <<>>]]

NewInvoice == [status |-> "pending", error_message |-> "", row_count |-> 0,
               processing_price |-> 0, is_paid |-> FALSE]

NoPriceCall == [called |-> FALSE, row_count |-> 0, services |-> 0, models |-> 0]
NoWallet == [balance |-> 0, opening |-> 0, locked_by |-> 0]

InitMerge ==
    /\ wb = UnreadWorkbook
    /\ sheetIdx = 1
    /\ inSheet = FALSE
    /\ count_rows = 0
    /\ rows_map = <<>>
    /\ parsed_rows = <<>>
    /\ log_lines = <<>>
    /\ wb_closed = 0

InitStore ==
    /\ txRows = <<>>
    /\ returned_rows = 0 - 1
    /\ invoice = NewInvoice
    /\ invoiceRows = <<>>

InitIdlePricing == priceCall = NoPriceCall
InitIdleWallet == wallet = NoWallet /\ walletTx = <<>> /\ req = <<>> /\ productPrices = <<>>

NoOutcome == [status |-> "none", rows |-> <<>>, row_count |-> 0, processing_price |-> 0]
FirstRun == [n |-> 1, before |-> <<>>, first |-> NoOutcome, outcomes |-> <<>>, store_failed |-> "no"]
NoReader == [pc |-> "idle", status |-> "none", rows |-> <<>>, at |-> 0, old |-> <<>>,
             stored_status |-> "none", during |-> "none"]
NoPricesReq == [n |-> 0, recalculated |-> FALSE, error |-> FALSE, repeated |-> FALSE]
NoNorm == [called |-> FALSE, val |-> NoneCell, outcome |-> Returned(0)]
InitIdleRun == run = FirstRun /\ reader = NoReader
InitIdlePrices == pricesReq = NoPricesReq
InitIdleNorm == norm = NoNorm
\* models.py 424-439: null=True fields left empty
Null == 0 - 1
NoCoupon == [is_active |-> TRUE, valid_from |-> Null, valid_to |-> Null, max_uses |-> Null,
             used_count |-> 0, now |-> 0, called |-> FALSE, result |-> FALSE]
InitIdleCoupon == coupon = NoCoupon
NoSheet == [rows |-> <<>>, stage |-> "none", headers |-> <<>>, idx_order |-> 0 - 1, idx_dkpc |-> 0 - 1,
            idx_title |-> 0 - 1, idx_amount |-> 0 - 1, next |-> 0]
InitIdleSheet == ws = NoSheet
NoExport == [n |-> 0, workbooks |-> 0, redirects |-> 0, last |-> "none", admin |-> 0, admin_paid |-> 0]
InitIdleExport == export = NoExport
InitIdleTopup == topup = <<>>

Merger == [rows_map |-> rows_map, parsed_rows |-> parsed_rows]
PresentSheets == {i \in 1..NumCalls : wb[i].status \in {"no_header", "no_columns", "ok"}}
RowsRead == LET RECURSIVE Sum(_)
                Sum(i) == IF i = 0 THEN 0 ELSE Len(wb[i].rows) + Sum(i - 1)
            IN  Sum(NumCalls)

LogEntry(sheet, msg, n) == [sheet |-> sheet, msg |-> msg, n |-> n]

-----------------------------------------------------------------------------
(* process_invoice_file and parse_invoice_excel, step by step *)

\* services.py 433-435
ProcessStart ==
    /\ pc = "pending"
    /\ invoice' = [invoice EXCEPT !.status = "processing", !.error_message = ""]
    /\ pc' = "load"
    /\ UNCHANGED <<mergeVars, txRows, returned_rows, invoiceRows, tiers, priceCall, userVars>>

\* services.py 158: load_workbook succeeds
LoadWorkbook ==
    /\ pc = "load"
    /\ pc' = "parse"
    /\ UNCHANGED <<mergeVars, txRows, returned_rows, invoice, invoiceRows, tiers, priceCall, userVars>>

\* services.py 158, 504-508: load_workbook raises, the handler records the error
LoadWorkbookFails ==
    /\ pc = "load"
    /\ invoice' = [invoice EXCEPT !.status = "error", !.error_message = "load_workbook failed"]
    /\ returned_rows' = 0
    /\ pc' = "returned"
    /\ UNCHANGED <<mergeVars, txRows, invoiceRows, tiers, priceCall, userVars>>

AtSheet == pc = "parse" /\ sheetIdx \in 1..NumCalls /\ ~inSheet

\* services.py 200-202, 287-291: the sheet is not in the workbook
SheetNotFound ==
    /\ AtSheet
    /\ wb' = [wb EXCEPT ![sheetIdx].status = "absent"]
    /\ log_lines' = Append(log_lines, LogEntry(SheetCalls[sheetIdx].sheet_name, "not_found", 0))
    /\ sheetIdx' = sheetIdx + 1
    /\ UNCHANGED <<pc, inSheet, count_rows, rows_map, parsed_rows, wb_closed, txRows,
                   returned_rows, invoice, invoiceRows, tiers, priceCall, userVars>>

\* services.py 204-208, 293-297: _get_header_row finds no header
SheetNoHeader ==
    /\ AtSheet
    /\ Cardinality(PresentSheets) < MaxSheets
    /\ wb' = [wb EXCEPT ![sheetIdx].status = "no_header"]
    /\ log_lines' = Append(log_lines, LogEntry(SheetCalls[sheetIdx].sheet_name, "no_header", 0))
    /\ sheetIdx' = sheetIdx + 1
    /\ UNCHANGED <<pc, inSheet, count_rows, rows_map, parsed_rows, wb_closed, txRows,
                   returned_rows, invoice, invoiceRows, tiers, priceCall, userVars>>

\* services.py 210-219, 299-307: a key column is not resolved
SheetNoColumns ==
    /\ AtSheet
    /\ Cardinality(PresentSheets) < MaxSheets
    /\ wb' = [wb EXCEPT ![sheetIdx].status = "no_columns"]
    /\ log_lines' = Append(log_lines, LogEntry(SheetCalls[sheetIdx].sheet_name, "no_columns", 0))
    /\ sheetIdx' = sheetIdx + 1
    /\ UNCHANGED <<pc, inSheet, count_rows, rows_map, parsed_rows, wb_closed, txRows,
                   returned_rows, invoice, invoiceRows, tiers, priceCall, userVars>>

\* services.py 221, 309-311: header and columns found, the row loop starts
SheetOpen ==
    /\ AtSheet
    /\ Cardinality(PresentSheets) < MaxSheets
    /\ wb' = [wb EXCEPT ![sheetIdx].status = "ok"]
    /\ inSheet' = TRUE
    /\ count_rows' = 0
    /\ UNCHANGED <<pc, sheetIdx, rows_map, parsed_rows, log_lines, wb_closed, txRows,
                   returned_rows, invoice, invoiceRows, tiers, priceCall, userVars>>

\* services.py 222-253, 312-346: one data row of the current sheet
ReadRow ==
    /\ pc = "parse" /\ inSheet
    /\ RowsRead < MaxRows
    /\ \E row \in RowsOf(SheetCalls[sheetIdx]) :
        LET m == ApplyRow(Merger, SheetCalls[sheetIdx], row) IN
        /\ wb' = [wb EXCEPT ![sheetIdx].rows = Append(@, row)]
        /\ rows_map' = m.rows_map
        /\ parsed_rows' = m.parsed_rows
        /\ count_rows' = IF RowSkipped(row) THEN count_rows ELSE count_rows + 1
    /\ UNCHANGED <<pc, sheetIdx, inSheet, log_lines, wb_closed, txRows,
                   returned_rows, invoice, invoiceRows, tiers, priceCall, userVars>>

\* services.py 255-257, 348-350: the rows are exhausted
SheetEnd ==
    /\ pc = "parse" /\ inSheet
    /\ log_lines' = Append(log_lines, LogEntry(SheetCalls[sheetIdx].sheet_name, "rows", count_rows))
    /\ inSheet' = FALSE
    /\ sheetIdx' = sheetIdx + 1
    /\ UNCHANGED <<pc, wb, count_rows, rows_map, parsed_rows, wb_closed, txRows,
                   returned_rows, invoice, invoiceRows, tiers, priceCall, userVars>>

\* services.py 412-419: return and wb.close()
ParseReturn ==
    /\ pc = "parse" /\ sheetIdx = NumCalls + 1
    /\ wb_closed' = wb_closed + 1
    /\ pc' = "atomic"
    /\ UNCHANGED <<wb, sheetIdx, inSheet, count_rows, rows_map, parsed_rows, log_lines, txRows,
                   returned_rows, invoice, invoiceRows, tiers, priceCall, userVars>>

\* services.py 452-455: the transaction opens and deletes the invoice's rows
DeleteRows ==
    /\ pc = "atomic"
    /\ txRows' = <<>>
    /\ pc' = "insert"
    /\ UNCHANGED <<mergeVars, returned_rows, invoice, invoiceRows, tiers, priceCall, userVars>>

\* a create outside any transaction: the row is committed at once
CreateRowAutocommit ==
    /\ pc = "insert" /\ Len(txRows) < Len(parsed_rows)
    /\ txRows' = Append(txRows, InvoiceRowOf(parsed_rows[Len(txRows) + 1]))
    /\ invoiceRows' = Append(txRows, InvoiceRowOf(parsed_rows[Len(txRows) + 1]))
    /\ UNCHANGED <<pc, mergeVars, returned_rows, invoice, tiers, priceCall, userVars>>

\* services.py 456-495: one iteration of the loop over parsed_rows
CreateRow ==
    /\ pc = "insert" /\ Len(txRows) < Len(parsed_rows)
    /\ txRows' = Append(txRows, InvoiceRowOf(parsed_rows[Len(txRows) + 1]))
    /\ UNCHANGED <<pc, mergeVars, returned_rows, invoice, invoiceRows, tiers, priceCall, userVars>>

\* a commit of the new rows that leaves the rows of the earlier run in place
SaveAndCommitAppends ==
    /\ pc = "insert" /\ Len(txRows) = Len(parsed_rows)
    /\ \E q \in OrderByMinRows(tiers) :
        invoice' = [invoice EXCEPT !.row_count = Len(txRows),
                                   !.processing_price = calculate_price_for_row_count(q, Len(txRows)),
                                   !.status = "done"]
    /\ invoiceRows' = invoiceRows \o txRows
    /\ returned_rows' = Len(txRows)
    /\ pc' = "returned"
    /\ UNCHANGED <<mergeVars, txRows, tiers, priceCall, userVars>>

\* a save whose price is computed from the row_count the invoice had before the run
SaveAndCommitStalePrice ==
    /\ pc = "insert" /\ Len(txRows) = Len(parsed_rows)
    /\ \E q \in OrderByMinRows(tiers) :
        invoice' = [invoice EXCEPT !.row_count = Len(txRows),
                                   !.processing_price = calculate_price_for_row_count(q, invoice.row_count),
                                   !.status = "done"]
    /\ invoiceRows' = txRows
    /\ returned_rows' = Len(txRows)
    /\ pc' = "returned"
    /\ UNCHANGED <<mergeVars, txRows, tiers, priceCall, userVars>>

\* services.py 497-502: the invoice is saved, the transaction commits, the call returns
SaveAndCommit ==
    /\ pc = "insert" /\ Len(txRows) = Len(parsed_rows)
    /\ \E q \in OrderByMinRows(tiers) :
        invoice' = [invoice EXCEPT !.row_count = Len(txRows),
                                   !.processing_price = calculate_price_for_row_count(q, Len(txRows)),
                                   !.status = "done"]
    /\ invoiceRows' = txRows
    /\ returned_rows' = Len(txRows)
    /\ pc' = "returned"
    /\ UNCHANGED <<mergeVars, txRows, tiers, priceCall, userVars>>

Init ==
    /\ pc = "pending"
    /\ InitMerge /\ InitStore /\ InitIdlePricing /\ InitIdleWallet
    /\ InitIdleRun /\ InitIdlePrices /\ InitIdleNorm /\ InitIdleCoupon /\ InitIdleSheet /\ InitIdleExport /\ InitIdleTopup
    /\ tiers = TestTiers

Next ==
    \/ ProcessStart \/ LoadWorkbook \/ LoadWorkbookFails
    \/ SheetNotFound \/ SheetNoHeader \/ SheetNoColumns \/ SheetOpen \/ ReadRow \/ SheetEnd
    \/ ParseReturn \/ DeleteRows \/ CreateRow \/ SaveAndCommit

Spec == Init /\ [][Next]_vars

-----------------------------------------------------------------------------
(* Claims about one run of process_invoice_file (specification Spec) *)

Succeeded == pc = "returned" /\ invoice.status = "done"

AllZero(r) ==
    /\ r.sale_amount = 0 /\ r.commission_amount = 0 /\ r.shipping_fee = 0
    /\ r.processing_fee = 0 /\ r.platform_dev_revenue = 0 /\ r.tax_amount = 0

HasCost(pr) ==
    \/ pr.commission_amount # 0 \/ pr.shipping_fee # 0
    \/ pr.processing_fee # 0 \/ pr.platform_dev_revenue # 0

\* the stored rows are the lines of the run, one for one and in order
StoredForLines ==
    /\ Len(invoiceRows) = Len(parsed_rows)
    /\ \A i \in 1..Len(parsed_rows) : KeyOf(invoiceRows[i]) = KeyOf(parsed_rows[i])

\* C2: after a successful process_invoice_file every line whose accumulated
\* sale_amount is <= 0 or whose is_return flag is set is stored with is_return
\* true and with sale, commission, shipping, processing, platform-dev and tax 0.
C2_ReturnLinesStoredZero ==
    Succeeded =>
        /\ StoredForLines
        /\ \A i \in 1..Len(parsed_rows) :
              (parsed_rows[i].sale_amount <= 0 \/ parsed_rows[i].is_return)
                  => (invoiceRows[i].is_return /\ AllZero(invoiceRows[i]))

\* a line created by cost sheets only (no sale row), with a cost on it, stored as a return,
\* next to a line flagged by a return sheet
C2_Witness ==
    /\ Succeeded
    /\ \E i \in 1..Len(parsed_rows) :
          /\ ~parsed_rows[i].is_return /\ parsed_rows[i].sale_amount = 0 /\ HasCost(parsed_rows[i])
          /\ invoiceRows[i].is_return /\ AllZero(invoiceRows[i])
    /\ \E i \in 1..Len(parsed_rows) :
          /\ parsed_rows[i].is_return /\ parsed_rows[i].sale_amount < 0
          /\ invoiceRows[i].is_return /\ AllZero(invoiceRows[i])

\* the return-sheet rows applied so far, as identities
ReturnRowKeys ==
    {Key(SheetCalls[i].sale_type, wb[i].rows[j].order_id, wb[i].rows[j].dkpc) :
        <<i, j>> \in {x \in (1..NumCalls) \X (1..MaxRows + 1) :
                        /\ SheetCalls[x[1]].kind = "sales" /\ SheetCalls[x[1]].is_return_sheet
                        /\ x[2] <= Len(wb[x[1]].rows)
                        /\ ~RowSkipped(wb[x[1]].rows[x[2]])}}

\* C3: once a return-sheet row has been applied to an identity, the line's
\* is_return flag is true (whether the row created the line or an earlier sale
\* row did) and it stays true for the rest of the run.
C3_ReturnFlagSticky ==
    \A key \in ReturnRowKeys : HasKey(Merger, key) /\ Line(Merger, key).is_return

\* C5: after a successful process_invoice_file every stored amount is >= 0, a
\* non-return line stores each accumulated field floored at 0, and the sale row
\* "1,234" with a reversal-commission row "100" for the same identity gives
\* sale_amount 1234, commission_amount 0, tax_amount 0.
C5_Scenario ==
    /\ wb[1].rows = <<Row(IntCell(7), DkpcA, NoneCell, Amount1234)>>
    /\ wb[7].rows = <<Row(IntCell(7), DkpcA, NoneCell, Amount100)>>
    /\ RowsRead = 2

C5_StoredNonNegative ==
    Succeeded =>
        /\ StoredForLines
        /\ \A i \in 1..Len(invoiceRows) :
              LET r == invoiceRows[i]  pr == parsed_rows[i] IN
              /\ r.sale_amount >= 0 /\ r.commission_amount >= 0 /\ r.shipping_fee >= 0
              /\ r.processing_fee >= 0 /\ r.platform_dev_revenue >= 0 /\ r.tax_amount >= 0
              /\ ~r.is_return =>
                    /\ r.sale_amount = pr.sale_amount
                    /\ r.commission_amount = Max0(pr.commission_amount)
                    /\ r.shipping_fee = Max0(pr.shipping_fee)
                    /\ r.processing_fee = Max0(pr.processing_fee)
                    /\ r.platform_dev_revenue = Max0(pr.platform_dev_revenue)
        /\ C5_Scenario =>
              /\ Len(invoiceRows) = 1
              /\ parsed_rows[1].commission_amount = 0 - 100
              /\ ~invoiceRows[1].is_return
              /\ invoiceRows[1].sale_amount = 1234
              /\ invoiceRows[1].commission_amount = 0
              /\ invoiceRows[1].tax_amount = 0

C5_Witness == Succeeded /\ C5_Scenario /\ invoiceRows[1].commission_amount = 0

\* C8: in every state of a run the line sequence holds at most one line per
\* identity and is exactly the identity map in first-seen order; lines are only
\* appended; a contribution to an identity already seen adds no line and leaves
\* the other lines alone.
C8_State ==
    /\ Len(rows_map) = Len(parsed_rows)
    /\ \A i \in 1..Len(parsed_rows) :
          /\ rows_map[i].pos = i
          /\ rows_map[i].key = KeyOf(parsed_rows[i])
    /\ \A i, j \in 1..Len(parsed_rows) :
          KeyOf(parsed_rows[i]) = KeyOf(parsed_rows[j]) => i = j

\* the data row read by the step, when the step reads one
C8_RowOfStep == wb'[sheetIdx].rows[Len(wb'[sheetIdx].rows)]

C8_Step ==
    /\ Len(parsed_rows') >= Len(parsed_rows)
    /\ \A i \in 1..Len(parsed_rows) : KeyOf(parsed_rows'[i]) = KeyOf(parsed_rows[i])
    /\ (wb' # wb /\ inSheet /\ Len(wb'[sheetIdx].rows) > Len(wb[sheetIdx].rows)
            /\ ~RowSkipped(C8_RowOfStep)) =>
          LET key == Key(SheetCalls[sheetIdx].sale_type, C8_RowOfStep.order_id, C8_RowOfStep.dkpc) IN
          /\ HasKey(Merger, key) =>
                /\ Len(parsed_rows') = Len(parsed_rows)
                /\ \A i \in 1..Len(parsed_rows) :
                      KeyOf(parsed_rows[i]) # key => parsed_rows'[i] = parsed_rows[i]
          /\ ~HasKey(Merger, key) =>
                /\ Len(parsed_rows') = Len(parsed_rows) + 1
                /\ KeyOf(parsed_rows'[Len(parsed_rows')]) = key

C8_OneLinePerIdentity == [](C8_State) /\ [][C8_Step]_vars

\* a sale row and a cost row of two sheets converged on one line
C8_Witness ==
    /\ Len(parsed_rows) = 1 /\ RowsRead = 2
    /\ parsed_rows[1].sale_amount # 0 /\ HasCost(parsed_rows[1])

-----------------------------------------------------------------------------
(* The same merger with the sheet calls taken in any order: the rows of any  *)
(* sheet call are folded one at a time, interleaved freely, and the run ends *)
(* through the finalisation of process_invoice_file. Specification Spec is  *)
(* the one order of the source.                                             *)

Contributions(c) == {row \in RowsOf(c) : ~RowSkipped(row)}

\* the row loops of services.py 222-253 and 312-346, for any sheet call
ApplyAnyRow ==
    /\ pc = "parse" /\ sheetIdx = 0
    /\ RowsRead < MaxRows
    /\ \E i \in 1..NumCalls : \E row \in Contributions(SheetCalls[i]) :
        LET m == ApplyRow(Merger, SheetCalls[i], row) IN
        /\ wb' = [wb EXCEPT ![i] = [status |-> "ok", rows |-> Append(@.rows, row)]]
        /\ rows_map' = m.rows_map
        /\ parsed_rows' = m.parsed_rows
    /\ UNCHANGED <<pc, sheetIdx, inSheet, count_rows, log_lines, wb_closed, txRows,
                   returned_rows, invoice, invoiceRows, tiers, priceCall, userVars>>

\* all sheet calls have returned
AnyOrderEnd ==
    /\ pc = "parse" /\ sheetIdx = 0
    /\ sheetIdx' = NumCalls + 1
    /\ UNCHANGED <<pc, wb, inSheet, count_rows, rows_map, parsed_rows, log_lines, wb_closed,
                   txRows, returned_rows, invoice, invoiceRows, tiers, priceCall, userVars>>

InitAnyOrder ==
    /\ pc = "parse"
    /\ wb = UnreadWorkbook
    /\ sheetIdx = 0
    /\ inSheet = FALSE /\ count_rows = 0 /\ rows_map = <<>> /\ parsed_rows = <<>>
    /\ log_lines = <<>> /\ wb_closed = 0
    /\ txRows = <<>> /\ returned_rows = 0 - 1 /\ invoiceRows = <<>>
    /\ invoice = [NewInvoice EXCEPT !.status = "processing"]
    /\ InitIdlePricing /\ InitIdleWallet
    /\ InitIdleRun /\ InitIdlePrices /\ InitIdleNorm /\ InitIdleCoupon /\ InitIdleSheet /\ InitIdleExport /\ InitIdleTopup
    /\ tiers = TestTiers

NextAnyOrder ==
    \/ ApplyAnyRow \/ AnyOrderEnd
    \/ ParseReturn \/ DeleteRows \/ CreateRow \/ SaveAndCommit

SpecAnyOrder == InitAnyOrder /\ [][NextAnyOrder]_vars

\* parse_invoice_excel on workbook w in the order of the source: sheet calls 1..NumCalls,
\* each sheet's rows top to bottom
RECURSIVE FoldRows(_, _, _)
FoldRows(m, c, rows) ==
    IF rows = <<>> THEN m ELSE FoldRows(ApplyRow(m, c, Head(rows)), c, Tail(rows))

RECURSIVE FoldSheets(_, _, _)
FoldSheets(m, w, i) ==
    IF i > NumCalls THEN m ELSE FoldSheets(FoldRows(m, SheetCalls[i], w[i].rows), w, i + 1)

MergeInCodeOrder(w) == FoldSheets(EmptyMerge, w, 1)

Accumulated(line) ==
    <<line.sale_amount, line.commission_amount, line.shipping_fee,
      line.processing_fee, line.platform_dev_revenue>>

StoredRecord(r) ==
    <<r.is_return, r.sale_amount, r.commission_amount, r.shipping_fee,
      r.processing_fee, r.platform_dev_revenue, r.tax_amount>>

\* C6: whatever the order in which the sale, return and cost rows of an
\* identity are applied, the line accumulates the same sale_amount,
\* commission_amount, shipping_fee, processing_fee and platform_dev_revenue
\* (those of the source's order over the same rows).
C6_AccumulationCommutes ==
    pc = "parse" =>
        LET ref == MergeInCodeOrder(wb) IN
        /\ Len(ref.parsed_rows) = Len(parsed_rows)
        /\ \A i \in 1..Len(parsed_rows) :
              /\ HasKey(ref, KeyOf(parsed_rows[i]))
              /\ Accumulated(parsed_rows[i]) = Accumulated(Line(ref, KeyOf(parsed_rows[i])))

\* a cost row was applied before the sale row of the same identity (the source's order
\* is the reverse), and a return row took part
C6_Witness ==
    /\ pc = "parse" /\ sheetIdx = 0 /\ RowsRead = MaxRows
    /\ Len(parsed_rows) = 1
    /\ parsed_rows[1].title = <<>> /\ parsed_rows[1].sale_amount = 100
    /\ parsed_rows[1].commission_amount = 100
    /\ wb[1].rows = <<Row(StrCell(<<"7">>), DkpcA, StrCell(<<"T">>), Amount100)>>

\* C7: the order in which sheets and rows are processed does not change the
\* finalized record of any line: is_return and the stored amounts are those
\* the source's order gives for the same rows.
C7_FinalRecordOrderIndependent ==
    Succeeded =>
        LET ref == MergeInCodeOrder(wb) IN
        \A i \in 1..Len(invoiceRows) :
            /\ HasKey(ref, KeyOf(invoiceRows[i]))
            /\ StoredRecord(invoiceRows[i]) = StoredRecord(InvoiceRowOf(Line(ref, KeyOf(invoiceRows[i]))))

-----------------------------------------------------------------------------
(* Pricing: calculate_price_for_row_count and calculate_price_from_tiers    *)
(* applied to generated tier tables and to the table of the tests.          *)

TierFees == {490000, 890000}

GeneratedTiers ==
    {Tier(lo, hi, fee) : lo \in 0..MaxTierRows, hi \in {NoMaxRows} \cup (0..MaxTierRows),
                         fee \in TierFees}

\* the tables of at most k generated tiers
RECURSIVE TablesUpTo(_)
TablesUpTo(k) ==
    IF k = 0 THEN {{}}
    ELSE LET smaller == TablesUpTo(k - 1)
         IN  smaller \cup {t \cup {x} : t \in smaller, x \in GeneratedTiers}

TierTables == TablesUpTo(MaxTiers) \cup {TestTiers}

RowCounts == ((0 - 1)..(MaxTierRows + 1)) \cup {100, 500, 501, 750, 1000, 1001, 2000}

InitPrice ==
    /\ pc = "pricing"
    /\ InitMerge /\ InitStore /\ InitIdlePricing /\ InitIdleWallet
    /\ InitIdleRun /\ InitIdlePrices /\ InitIdleNorm /\ InitIdleCoupon /\ InitIdleSheet /\ InitIdleExport /\ InitIdleTopup
    /\ tiers \in TierTables

\* one call of each pricing function with the same row count; each runs its own query
CalculatePrice ==
    /\ pc = "pricing" /\ ~priceCall.called
    /\ \E n \in RowCounts : \E q1, q2 \in OrderByMinRows(tiers) :
        priceCall' = [called |-> TRUE, row_count |-> n,
                      services |-> calculate_price_for_row_count(q1, n),
                      models |-> calculate_price_from_tiers(q2, n)]
    /\ UNCHANGED <<pc, mergeVars, txRows, returned_rows, invoice, invoiceRows, tiers, userVars>>

NextPrice == CalculatePrice

SpecPrice == InitPrice /\ [][NextPrice]_vars

\* min_rows <= n and (max_rows unset or n <= max_rows)
InRange(t, n) == t.min_rows <= n /\ (t.max_rows = NoMaxRows \/ n <= t.max_rows)
Matching(n) == {t \in tiers : InRange(t, n)}
\* the fees of the matching tiers that come first in ascending min_rows order
FirstFees(n) ==
    {t.price_per_invoice : t \in {u \in Matching(n) : \A w \in Matching(n) : u.min_rows <= w.min_rows}}

C9_Expected(result, n) ==
    IF n <= 0 \/ Matching(n) = {} THEN result = 0 ELSE result \in FirstFees(n)

\* C9: for every tier table and row count n both pricing functions return 0
\* when n <= 0, otherwise the fee of the first tier in ascending min_rows order
\* with min_rows <= n and (max_rows unset or n <= max_rows), and 0 when no tier
\* matches; the table of the tests gives 490000 for 100, 890000 for 750,
\* 1290000 for 2000 and 0 for 0.
C9_FirstMatchingTier ==
    priceCall.called =>
        LET n == priceCall.row_count IN
        /\ C9_Expected(priceCall.services, n)
        /\ C9_Expected(priceCall.models, n)
        /\ Cardinality(FirstFees(n)) <= 1 => priceCall.services = priceCall.models
        /\ tiers = TestTiers =>
              /\ n = 100 => priceCall.services = 490000 /\ priceCall.models = 490000
              /\ n = 750 => priceCall.services = 890000 /\ priceCall.models = 890000
              /\ n = 2000 => priceCall.services = 1290000 /\ priceCall.models = 1290000
              /\ n = 0 => priceCall.services = 0 /\ priceCall.models = 0

\* the second tier of the tests' table answers for 750 rows
C9_Witness ==
    /\ priceCall.called /\ tiers = TestTiers /\ priceCall.row_count = 750
    /\ priceCall.services = 890000 /\ priceCall.models = 890000

Unbounded(t) == t.max_rows = NoMaxRows
RangeEmpty(t) == ~Unbounded(t) /\ t.max_rows < t.min_rows
Overlap(t, u) ==
    LET lo == IF t.min_rows >= u.min_rows THEN t.min_rows ELSE u.min_rows IN
    /\ ~RangeEmpty(t) /\ ~RangeEmpty(u)
    /\ (Unbounded(t) \/ lo <= t.max_rows)
    /\ (Unbounded(u) \/ lo <= u.max_rows)
NonOverlapping == \A t, u \in tiers : t # u => ~Overlap(t, u)
FeesAscending == \A t, u \in tiers : t.min_rows < u.min_rows => t.price_per_invoice <= u.price_per_invoice
AboveAllTiers(n) == (\A t \in tiers : ~Unbounded(t) /\ t.max_rows < n)

C10_ZeroOutside ==
    LET n == priceCall.row_count IN
    /\ n <= 0 => priceCall.services = 0
    /\ AboveAllTiers(n) => priceCall.services = 0

C10_MonotoneUpTo ==
    LET n == priceCall.row_count IN
    \A n1 \in RowCounts : \A q \in OrderByMinRows(tiers) :
        (n1 <= n /\ n1 > 0 /\ Matching(n1) # {} /\ Matching(n) # {})
            => calculate_price_for_row_count(q, n1) <= priceCall.services

\* C10 as written: for every tier table whose ranges do not overlap the price is
\* monotonic non-decreasing in the row count over the covered counts, and it is
\* 0 for n <= 0 and for n above all tiers when no tier is unbounded.
C10_MonotoneNonOverlapping ==
    (priceCall.called /\ NonOverlapping) => (C10_MonotoneUpTo /\ C10_ZeroOutside)

\* C10 amended: the same for tier tables whose ranges do not overlap and whose
\* fees do not decrease as min_rows grows.
C10_MonotoneAscendingFees ==
    (priceCall.called /\ NonOverlapping /\ FeesAscending) => (C10_MonotoneUpTo /\ C10_ZeroOutside)

\* two adjoining tiers with a higher fee for the higher range, priced in the upper one
C10_Witness ==
    /\ priceCall.called /\ NonOverlapping /\ FeesAscending
    /\ tiers = {Tier(1, 2, 490000), Tier(3, NoMaxRows, 890000)}
    /\ priceCall.row_count = 3 /\ priceCall.services = 890000

-----------------------------------------------------------------------------
(* invoice_pay (views.py 395-455): concurrent requests of one user against  *)
(* one invoice and one wallet. The record store is a row-locking store at   *)
(* READ COMMITTED: a read sees the last committed row, an UPDATE takes the  *)
(* row's lock until its transaction commits; transaction.atomic() by itself *)
(* locks nothing (the source never calls select_for_update).                *)

Requests == 1..NumRequests
\* the one-tier table of the scenario and its fee
PayTier == Tier(1, NoMaxRows, 1000000)
Fee == PayTier.price_per_invoice
OpeningBalances == {0, Fee, 2 * Fee}

NewRequest == [pc |-> "new", price |-> 0, balance |-> 0, outcome |-> "none"]

\* an invoice processed with one sale line, priced by a one-tier table
SaleLine == [ParsedRow("cash", <<"7">>, <<"A">>, <<>>, FALSE) EXCEPT !.sale_amount = 1234]

InitPay ==
    /\ pc = "paying"
    /\ InitMerge /\ InitIdlePricing
    /\ txRows = <<>> /\ returned_rows = 1
    /\ tiers = {PayTier}
    /\ invoiceRows = <<InvoiceRowOf(SaleLine)>>
    /\ \E q \in OrderByMinRows(tiers) : \E price \in {0, calculate_price_for_row_count(q, 1)} :
          invoice = [NewInvoice EXCEPT !.status = "done", !.row_count = 1, !.processing_price = price]
    /\ \E b \in OpeningBalances : wallet = [balance |-> b, opening |-> b, locked_by |-> 0]
    /\ walletTx = <<>>
    /\ productPrices = <<>>
    /\ InitIdleRun /\ InitIdlePrices /\ InitIdleNorm /\ InitIdleCoupon /\ InitIdleSheet /\ InitIdleExport /\ InitIdleTopup
    /\ req = [r \in Requests |-> NewRequest]

PayUnchanged == <<pc, mergeVars, txRows, returned_rows, invoiceRows, tiers, productPrices, priceCall,
                  run, reader, pricesReq, norm, coupon, ws, export, topup>>

Finish(r, outcome) == [req EXCEPT ![r].pc = "done", ![r].outcome = outcome]

\* views.py 403-407: the invoice read is already paid
PayAlreadyPaid(r) ==
    /\ req[r].pc = "new" /\ invoice.is_paid
    /\ req' = Finish(r, "already_paid")
    /\ UNCHANGED <<PayUnchanged, invoice, wallet, walletTx>>

\* views.py 403-412: invoice and wallet are read, price and balance kept
PayRead(r) ==
    /\ req[r].pc = "new" /\ ~invoice.is_paid
    /\ req' = [req EXCEPT ![r].pc = "read", ![r].price = invoice.processing_price,
                          ![r].balance = wallet.balance]
    /\ UNCHANGED <<PayUnchanged, invoice, wallet, walletTx>>

\* views.py 446-455: a GET renders the payment page
PayGet(r) ==
    /\ req[r].pc = "read"
    /\ req' = Finish(r, "render")
    /\ UNCHANGED <<PayUnchanged, invoice, wallet, walletTx>>

\* views.py 414-417: POST, no price set
PayNoPrice(r) ==
    /\ req[r].pc = "read" /\ req[r].price <= 0
    /\ req' = Finish(r, "no_price")
    /\ UNCHANGED <<PayUnchanged, invoice, wallet, walletTx>>

\* views.py 419-421: POST, the balance read at 409 is too small
PayInsufficient(r) ==
    /\ req[r].pc = "read" /\ req[r].price > 0 /\ req[r].balance < req[r].price
    /\ req' = Finish(r, "insufficient")
    /\ UNCHANGED <<PayUnchanged, invoice, wallet, walletTx>>

\* views.py 423-424: the transaction opens and the wallet is read again
PayReread(r) ==
    /\ req[r].pc = "read" /\ req[r].price > 0 /\ req[r].balance >= req[r].price
    /\ req' = [req EXCEPT ![r].pc = "atomic", ![r].balance = wallet.balance]
    /\ UNCHANGED <<PayUnchanged, invoice, wallet, walletTx>>

\* views.py 425-427: the re-check fails, the transaction ends without a write
PayRecheckFails(r) ==
    /\ req[r].pc = "atomic" /\ req[r].balance < req[r].price
    /\ req' = Finish(r, "insufficient")
    /\ UNCHANGED <<PayUnchanged, invoice, wallet, walletTx>>

\* views.py 429-430: wallet.balance -= price; the UPDATE takes the wallet row's lock
PayDebit(r) ==
    /\ req[r].pc = "atomic" /\ req[r].balance >= req[r].price
    /\ wallet.locked_by = 0
    /\ wallet' = [wallet EXCEPT !.locked_by = r]
    /\ req' = [req EXCEPT ![r].pc = "debited", ![r].balance = @ - req[r].price]
    /\ UNCHANGED <<PayUnchanged, invoice, walletTx>>

\* views.py 432-444: the debit transaction is created, the invoice marked paid, all committed
PayCommit(r) ==
    /\ req[r].pc = "debited"
    /\ wallet' = [wallet EXCEPT !.balance = req[r].balance, !.locked_by = 0]
    /\ walletTx' = Append(walletTx, [type |-> "debit", amount |-> req[r].price, by |-> r])
    /\ invoice' = [invoice EXCEPT !.is_paid = TRUE]
    /\ req' = Finish(r, "paid")
    /\ UNCHANGED PayUnchanged

NextPay ==
    \E r \in Requests :
        \/ PayAlreadyPaid(r) \/ PayRead(r) \/ PayGet(r) \/ PayNoPrice(r) \/ PayInsufficient(r)
        \/ PayReread(r) \/ PayRecheckFails(r) \/ PayDebit(r) \/ PayCommit(r)

SpecPay == InitPay /\ [][NextPay]_vars

Paid == {r \in Requests : req[r].outcome = "paid"}
Debits == {i \in 1..Len(walletTx) : walletTx[i].type = "debit"}

\* C1: two concurrent invoice_pay POSTs (both past the is_paid test) against a
\* wallet whose balance covers the fee only once: in every interleaving
\* exactly one request debits the wallet and marks the invoice paid, the other
\* observes insufficient balance and debits nothing.
C1_ExactlyOnePays ==
    (/\ \A r \in Requests : req[r].pc = "done" /\ req[r].outcome \in {"paid", "insufficient"}
     /\ invoice.processing_price = Fee /\ wallet.opening = Fee)
        => /\ Cardinality(Paid) = 1
           /\ Cardinality(Debits) = 1
           /\ wallet.balance = wallet.opening - Fee
           /\ invoice.is_paid

-----------------------------------------------------------------------------
(* invoice_prices and recalc_profit (views.py 36-82, 226-387), on an        *)
(* invoice that process_invoice_file has stored.                            *)

min_purchase_price == 1000

\* a recalc_profit that takes the cost from the profit it finds on the row
recalc_row_accumulates(row) ==
    IF row.is_return \/ row.purchase_price <= 0
    THEN [row EXCEPT !.profit = 0, !.tax_amount = 0]
    ELSE
        LET tax == (row.commission_amount + row.processing_fee) \div 10
            total_cost ==
                IF row.sale_type = "cash"
                THEN row.purchase_price + row.commission_amount + row.shipping_fee
                     + row.processing_fee + tax
                ELSE row.purchase_price + row.platform_dev_revenue + row.commission_amount
                     + row.shipping_fee + row.processing_fee + tax
        IN  [row EXCEPT !.tax_amount = tax,
                        !.profit = IF row.profit = 0 THEN row.sale_amount - total_cost
                                   ELSE row.profit - total_cost]

\* a recalc_profit that uses the cash formula for every channel
recalc_row_cash_only(row) ==
    IF row.is_return \/ row.purchase_price <= 0
    THEN [row EXCEPT !.profit = 0, !.tax_amount = 0]
    ELSE
        LET tax == (row.commission_amount + row.processing_fee) \div 10
            total_cost == row.purchase_price + row.commission_amount + row.shipping_fee
                          + row.processing_fee + tax
        IN  [row EXCEPT !.tax_amount = tax, !.profit = row.sale_amount - total_cost]

\* views.py 49-79: the body of recalc_profit's loop
recalc_row(row) ==
    IF row.is_return \/ row.purchase_price <= 0
    THEN [row EXCEPT !.profit = 0, !.tax_amount = 0]
    ELSE
        LET tax == (row.commission_amount + row.processing_fee) \div 10
            total_cost ==
                IF row.sale_type = "cash"
                THEN row.purchase_price + row.commission_amount + row.shipping_fee
                     + row.processing_fee + tax
                ELSE row.purchase_price + row.platform_dev_revenue + row.commission_amount
                     + row.shipping_fee + row.processing_fee + tax
        IN  [row EXCEPT !.tax_amount = tax, !.profit = row.sale_amount - total_cost]

\* views.py 36-82
recalc_profit(rows) == [i \in 1..Len(rows) |-> recalc_row(rows[i])]

\* views.py 258-268: None for "" and None, else normalize_number(raw)
NoPrice == [valid |-> FALSE, value |-> 0]
parse_price_value(raw) ==
    IF raw.kind = "none" \/ (raw.kind = "str" /\ raw.s = <<>>) THEN NoPrice
    ELSE IF NormalizeOutcome(raw).raised THEN NoPrice
    ELSE [valid |-> TRUE, value |-> _normalize_number(raw)]

\* InvoiceRow.objects.filter(invoice=invoice, dkpc=dkpc).update(purchase_price=price_val)
SetPurchasePrice(rows, dkpc, price_val) ==
    [i \in 1..Len(rows) |-> IF rows[i].dkpc = dkpc THEN [rows[i] EXCEPT !.purchase_price = price_val]
                                                 ELSE rows[i]]

\* ProductPrice.objects.update_or_create(user, dkpc, defaults={purchase_price})
HasPrice(pp, dkpc) == \E i \in DOMAIN pp : pp[i].dkpc = dkpc
update_or_create(pp, dkpc, price_val) ==
    IF HasPrice(pp, dkpc)
    THEN [i \in DOMAIN pp |-> IF pp[i].dkpc = dkpc THEN [pp[i] EXCEPT !.purchase_price = price_val]
                                               ELSE pp[i]]
    ELSE Append(pp, [dkpc |-> dkpc, purchase_price |-> price_val])

PriceStore(rows, pp, error) == [rows |-> rows, pp |-> pp, error |-> error]

\* views.py 289-316: the loop over the rows of the price spreadsheet, from row i on
RECURSIVE ExcelLoop(_, _, _)
ExcelLoop(st, df, i) ==
    IF i > Len(df) THEN st
    ELSE LET dkpc_val == Strip(df[i].dkpc)
             price_val == parse_price_value(df[i].price)
         IN  IF dkpc_val = <<>> THEN ExcelLoop(st, df, i + 1)
             ELSE IF ~price_val.valid THEN ExcelLoop(st, df, i + 1)
             ELSE IF price_val.value < 0 THEN [st EXCEPT !.error = TRUE]
             ELSE IF price_val.value < min_purchase_price THEN [st EXCEPT !.error = TRUE]
             ELSE ExcelLoop(PriceStore(SetPurchasePrice(st.rows, dkpc_val, price_val.value),
                                       update_or_create(st.pp, dkpc_val, price_val.value),
                                       st.error),
                            df, i + 1)

\* views.py 237-248: the variant codes of the non-return rows, ascending
SummaryDkpcs(rows) == {rows[i].dkpc : i \in {j \in 1..Len(rows) : ~rows[j].is_return}}

\* views.py 330-370: the loop over the summary items of the web form, over the variant
\* codes still to do (every item of one variant code reads the same field price_<dkpc>)
RECURSIVE FormLoop(_, _, _)
FormLoop(st, post, todo) ==
    IF todo = {} THEN st
    ELSE LET dkpc == CHOOSE d \in todo : TRUE
             price_val == parse_price_value(post[dkpc])
             rest == todo \ {dkpc}
         IN  IF ~price_val.valid \/ price_val.value < 0 \/ price_val.value < min_purchase_price
             THEN FormLoop([st EXCEPT !.error = TRUE], post, rest)
             ELSE FormLoop(PriceStore(SetPurchasePrice(st.rows, dkpc, price_val.value),
                                      update_or_create(st.pp, dkpc, price_val.value),
                                      st.error),
                           post, rest)

\* inputs
\* request.POST values are strings; read_excel gives numbers, strings and NaN for an empty cell
FormValues == {StrCell(<<>>), StrCell(<<"5", "0", "0">>), StrCell(<<"1", "0", "0", "0">>),
               StrCell(<<"2", ",", "5", "0", "0">>)}
PriceCells == {NanCell, IntCell(500), IntCell(1000), StrCell(<<"2", ",", "5", "0", "0">>)}
PriceSheetRows == {[dkpc |-> d, price |-> c] : d \in {<<"A">>, <<"B">>, <<" ">>}, c \in PriceCells}
RECURSIVE SeqsUpTo(_, _)
SeqsUpTo(S, n) ==
    IF n = 0 THEN {<<>>}
    ELSE LET shorter == SeqsUpTo(S, n - 1)
         IN  shorter \cup {Append(q, x) : q \in shorter, x \in S}

ProfitUnchanged == <<pc, mergeVars, txRows, returned_rows, invoice, tiers, priceCall, wallet, walletTx, req,
                     run, reader, norm, coupon, ws, export, topup>>

\* the record of a request that ended with store st: whether recalc_profit ran, and
\* whether it ran again right after a run with no purchase price changed in between
SamePrices(rows1, rows2) ==
    \A i \in 1..Len(rows1) : rows1[i].purchase_price = rows2[i].purchase_price
RequestMade(st) ==
    [n |-> pricesReq.n + 1, recalculated |-> ~st.error, error |-> st.error,
     repeated |-> pricesReq.recalculated /\ ~st.error /\ SamePrices(invoiceRows, st.rows)]

\* views.py 271-324: POST with a price spreadsheet whose columns are found
InvoicePricesExcel ==
    /\ pc = "stored" /\ pricesReq.n < MaxPriceRequests
    /\ \E df \in SeqsUpTo(PriceSheetRows, MaxPriceRows) :
        LET st == ExcelLoop(PriceStore(invoiceRows, productPrices, FALSE), df, 1) IN
        /\ invoiceRows' = IF ~st.error THEN recalc_profit(st.rows) ELSE st.rows
        /\ productPrices' = st.pp
        /\ pricesReq' = RequestMade(st)
    /\ UNCHANGED ProfitUnchanged

\* views.py 327-375: POST of the web form
InvoicePricesForm ==
    /\ pc = "stored" /\ pricesReq.n < MaxPriceRequests
    /\ \E post \in [SummaryDkpcs(invoiceRows) -> FormValues] :
        LET st == FormLoop(PriceStore(invoiceRows, productPrices, FALSE), post, SummaryDkpcs(invoiceRows)) IN
        /\ invoiceRows' = IF ~st.error THEN recalc_profit(st.rows) ELSE st.rows
        /\ productPrices' = st.pp
        /\ pricesReq' = RequestMade(st)
    /\ UNCHANGED ProfitUnchanged

\* accumulated lines of a finished merge
Acc(sale_type, dkpc, sale, commission, shipping, processing, platform_dev, is_return) ==
    [ParsedRow(sale_type, <<"7">>, dkpc, <<>>, is_return) EXCEPT
        !.sale_amount = sale, !.commission_amount = commission, !.shipping_fee = shipping,
        !.processing_fee = processing, !.platform_dev_revenue = platform_dev]

MergedLines == {Acc("cash", <<"A">>, 1234, 100, 40, 34, 0, FALSE),
                Acc("credit", <<"A">>, 1234, 100, 0, 0, 50, FALSE),
                Acc("cash", <<"B">>, 2468, 0 - 100, 0, 100, 0, FALSE),
                Acc("credit", <<"B">>, 0 - 40, 100, 0, 0, 0, TRUE)}

MergedRuns == {q \in SeqsUpTo(MergedLines, 2) :
                  Len(q) >= 1 /\ \A i, j \in 1..Len(q) : KeyOf(q[i]) = KeyOf(q[j]) => i = j}

\* the state process_invoice_file leaves (services.py 452-500) for the lines of a merge
InitProfit ==
    /\ pc = "stored"
    /\ InitMerge /\ InitIdlePricing
    /\ wallet = NoWallet /\ walletTx = <<>> /\ req = <<>> /\ productPrices = <<>>
    /\ InitIdleRun /\ InitIdlePrices /\ InitIdleNorm /\ InitIdleCoupon /\ InitIdleSheet /\ InitIdleExport /\ InitIdleTopup
    /\ tiers = TestTiers
    /\ txRows = <<>>
    /\ \E merged \in MergedRuns :
        /\ invoiceRows = [i \in 1..Len(merged) |-> InvoiceRowOf(merged[i])]
        /\ returned_rows = Len(merged)
        /\ \E q \in OrderByMinRows(tiers) :
              invoice = [NewInvoice EXCEPT !.status = "done", !.row_count = Len(merged),
                            !.processing_price = calculate_price_for_row_count(q, Len(merged))]

NextProfit == InvoicePricesExcel \/ InvoicePricesForm

SpecProfit == InitProfit /\ [][NextProfit]_vars

\* C4: after a successful process_invoice_file and any sequence of price
\* submissions (each with its recalc_profit), every stored non-return line has
\* tax_amount = floor((commission_amount + processing_fee) / 10).
C4_TaxOfNonReturnLines ==
    \A i \in 1..Len(invoiceRows) :
        ~invoiceRows[i].is_return =>
            invoiceRows[i].tax_amount
                = (invoiceRows[i].commission_amount + invoiceRows[i].processing_fee) \div 10

-----------------------------------------------------------------------------
(* process_invoice_file run again on the same invoice and the same          *)
(* spreadsheet, with the failures it can meet (services.py 422-508), and    *)
(* invoice_detail (views.py 183-218) reading the invoice meanwhile. The     *)
(* record store runs the block of transaction.atomic() as one transaction:  *)
(* its writes are in txRows until the commit, and gone after a rollback.    *)

\* the workbook is given: sheet calls 1 (sales, cash), 2 (sales returns, cash) and
\* 5 (commission, cash) may be present, the other sheets are absent
Sheet(status, rows) == [status |-> status, rows |-> rows]
InfRow == Row(IntCell(7), DkpcA, NoneCell, InfCell)
SalesSheets == {Sheet("absent", <<>>), Sheet("no_header", <<>>),
                Sheet("ok", <<Row(IntCell(7), DkpcA, NoneCell, Amount1234)>>),
                Sheet("ok", <<Row(IntCell(7), DkpcA, NoneCell, Amount1234),
                              Row(IntCell(7), DkpcB, NoneCell, Amount100)>>),
                Sheet("ok", <<Row(IntCell(7), DkpcB, NoneCell, Amount100), InfRow>>)}
ReturnSheets == {Sheet("absent", <<>>),
                 Sheet("ok", <<Row(IntCell(7), DkpcA, NoneCell, AmountNeg40)>>)}
CommissionSheets == {Sheet("absent", <<>>),
                     Sheet("ok", <<Row(IntCell(7), DkpcA, NoneCell, Amount100),
                                   Row(IntCell(7), NoneCell, NoneCell, Amount100)>>),
                     Sheet("ok", <<InfRow>>)}
Workbooks ==
    {[i \in 1..NumCalls |-> IF i = 1 THEN s ELSE IF i = 2 THEN r ELSE IF i = 5 THEN c
                            ELSE Sheet("absent", <<>>)] :
        s \in SalesSheets, r \in ReturnSheets, c \in CommissionSheets}

\* _normalize_number raises on the row's amount (services.py 231, 320)
RowRaises(row) == ~RowSkipped(row) /\ NormalizeOutcome(row.amount_raw).raised
SheetRaises(sh) == sh.status = "ok" /\ \E i \in 1..Len(sh.rows) : RowRaises(sh.rows[i])
FirstRaising(rows) == CHOOSE i \in 1..Len(rows) :
                         RowRaises(rows[i]) /\ \A j \in 1..(i - 1) : ~RowRaises(rows[j])
CountRead(rows) == Len(SelectSeq(rows, LAMBDA row : ~RowSkipped(row)))

RerunUnchanged == <<tiers, priceCall, wallet, walletTx, req, productPrices, pricesReq, norm, coupon, ws, export, topup>>

\* services.py 195-257, 271-350: one call of _read_sales_sheet or _apply_cost_sheet
\* on the given workbook, no row raising
ParseSheet ==
    /\ AtSheet /\ ~SheetRaises(wb[sheetIdx])
    /\ LET sh == wb[sheetIdx]
           c == SheetCalls[sheetIdx]
           m == IF sh.status = "ok" THEN FoldRows(Merger, c, sh.rows) ELSE Merger
       IN  /\ rows_map' = m.rows_map
           /\ parsed_rows' = m.parsed_rows
           /\ count_rows' = IF sh.status = "ok" THEN CountRead(sh.rows) ELSE count_rows
           /\ log_lines' = Append(log_lines,
                 CASE sh.status = "absent" -> LogEntry(c.sheet_name, "not_found", 0)
                   [] sh.status = "no_header" -> LogEntry(c.sheet_name, "no_header", 0)
                   [] sh.status = "no_columns" -> LogEntry(c.sheet_name, "no_columns", 0)
                   [] OTHER -> LogEntry(c.sheet_name, "rows", CountRead(sh.rows)))
    /\ sheetIdx' = sheetIdx + 1
    /\ UNCHANGED <<pc, wb, inSheet, wb_closed, txRows, returned_rows, invoice, invoiceRows,
                   run, reader, RerunUnchanged>>

\* a raising row loop that leaves the workbook open
ParseSheetRaisesNoClose ==
    /\ AtSheet /\ SheetRaises(wb[sheetIdx])
    /\ LET rows == wb[sheetIdx].rows
           m == FoldRows(Merger, SheetCalls[sheetIdx], SubSeq(rows, 1, FirstRaising(rows) - 1))
       IN  /\ rows_map' = m.rows_map
           /\ parsed_rows' = m.parsed_rows
           /\ count_rows' = CountRead(SubSeq(rows, 1, FirstRaising(rows) - 1))
    /\ wb_closed' = wb_closed
    /\ invoice' = [invoice EXCEPT !.status = "error", !.error_message = "OverflowError"]
    /\ returned_rows' = 0
    /\ pc' = "returned"
    /\ UNCHANGED <<wb, sheetIdx, inSheet, log_lines, txRows, invoiceRows, run, reader, RerunUnchanged>>

\* services.py 231, 320, 418-419, 504-508: _normalize_number raises in the row loop;
\* wb.close() runs and the handler of process_invoice_file records the error
ParseSheetRaises ==
    /\ AtSheet /\ SheetRaises(wb[sheetIdx])
    /\ LET rows == wb[sheetIdx].rows
           m == FoldRows(Merger, SheetCalls[sheetIdx], SubSeq(rows, 1, FirstRaising(rows) - 1))
       IN  /\ rows_map' = m.rows_map
           /\ parsed_rows' = m.parsed_rows
           /\ count_rows' = CountRead(SubSeq(rows, 1, FirstRaising(rows) - 1))
    /\ wb_closed' = wb_closed + 1
    /\ invoice' = [invoice EXCEPT !.status = "error", !.error_message = "OverflowError"]
    /\ returned_rows' = 0
    /\ pc' = "returned"
    /\ UNCHANGED <<wb, sheetIdx, inSheet, log_lines, txRows, invoiceRows, run, reader, RerunUnchanged>>

\* a replace that fails and keeps what the transaction wrote so far
ReplaceFailsNoRollback ==
    /\ pc \in {"atomic", "insert"}
    /\ run' = [run EXCEPT !.store_failed =
                  IF pc = "atomic" THEN "delete"
                  ELSE IF Len(txRows) < Len(parsed_rows) THEN "insert" ELSE "save"]
    /\ invoiceRows' = IF pc = "atomic" THEN invoiceRows ELSE txRows
    /\ txRows' = <<>>
    /\ invoice' = [invoice EXCEPT !.status = "error", !.error_message = "DatabaseError"]
    /\ returned_rows' = 0
    /\ pc' = "returned"
    /\ UNCHANGED <<mergeVars, reader, RerunUnchanged>>

\* services.py 452-500, 504-508: a statement of the atomic block raises (the delete, a
\* create, or the save): the transaction is rolled back, the handler records the error
ReplaceFails ==
    /\ pc \in {"atomic", "insert"}
    /\ run' = [run EXCEPT !.store_failed =
                  IF pc = "atomic" THEN "delete"
                  ELSE IF Len(txRows) < Len(parsed_rows) THEN "insert" ELSE "save"]
    /\ txRows' = <<>>
    /\ invoice' = [invoice EXCEPT !.status = "error", !.error_message = "DatabaseError"]
    /\ returned_rows' = 0
    /\ pc' = "returned"
    /\ UNCHANGED <<mergeVars, invoiceRows, reader, RerunUnchanged>>

Outcome == [status |-> invoice.status, rows |-> invoiceRows, row_count |-> invoice.row_count,
            processing_price |-> invoice.processing_price]

\* process_invoice_file is called again for the same invoice (services.py 422)
RunAgain ==
    /\ pc = "returned" /\ run.n < MaxRuns
    /\ run' = [n |-> run.n + 1, before |-> invoiceRows,
               first |-> IF run.n = 1 THEN Outcome ELSE run.first,
               outcomes |-> Append(run.outcomes, Outcome),
               store_failed |-> run.store_failed]
    /\ pc' = "pending"
    /\ sheetIdx' = 1 /\ inSheet' = FALSE /\ count_rows' = 0
    /\ rows_map' = <<>> /\ parsed_rows' = <<>> /\ log_lines' = <<>> /\ wb_closed' = 0
    /\ txRows' = <<>> /\ returned_rows' = 0 - 1
    /\ UNCHANGED <<wb, invoice, invoiceRows, reader, RerunUnchanged>>

\* views.py 190: invoice_detail reads the invoice record
ReaderReadInvoice ==
    /\ reader.pc = "idle"
    /\ reader' = [reader EXCEPT !.pc = "invoice", !.status = invoice.status]
    /\ UNCHANGED <<pc, mergeVars, txRows, returned_rows, invoice, invoiceRows, run, RerunUnchanged>>

\* views.py 192-218: the query of the invoice's rows runs, on the committed rows of that
\* moment (kept with it: the run going on and its position, the rows before it, the
\* status then stored)
ReaderReadRows ==
    /\ reader.pc = "invoice"
    /\ reader' = [reader EXCEPT !.pc = "done", !.rows = invoiceRows, !.at = run.n,
                                !.old = run.before, !.stored_status = invoice.status,
                                !.during = pc]
    /\ UNCHANGED <<pc, mergeVars, txRows, returned_rows, invoice, invoiceRows, run, RerunUnchanged>>

\* a tier table whose fee changes between one and two rows
SmallTiers == {Tier(1, 1, 490000), Tier(2, NoMaxRows, 890000)}

InitRerun ==
    /\ pc = "pending"
    /\ wb \in Workbooks
    /\ sheetIdx = 1 /\ inSheet = FALSE /\ count_rows = 0
    /\ rows_map = <<>> /\ parsed_rows = <<>> /\ log_lines = <<>> /\ wb_closed = 0
    /\ InitStore /\ InitIdlePricing /\ InitIdleWallet
    /\ InitIdleRun /\ InitIdlePrices /\ InitIdleNorm /\ InitIdleCoupon /\ InitIdleSheet /\ InitIdleExport /\ InitIdleTopup
    /\ tiers \in {TestTiers, SmallTiers}

NextRerun ==
    \/ ProcessStart \/ LoadWorkbook \/ LoadWorkbookFails
    \/ ParseSheet \/ ParseSheetRaises \/ ParseReturn
    \/ DeleteRows \/ CreateRow \/ SaveAndCommit \/ ReplaceFails
    \/ RunAgain
    \/ ReaderReadInvoice \/ ReaderReadRows

SpecRerun == InitRerun /\ [][NextRerun]_vars

\* C11: a run of process_invoice_file that meets a failure (load_workbook
\* fails, _normalize_number raises in the merge, a statement of the replace
\* fails) ends with status error and the error text in error_message, reports
\* 0 rows, and leaves the stored lines exactly those before the run; a
\* workbook with a raising row never ends in status done.
C11_FailureLeavesLinesUntouched ==
    pc = "returned" =>
        /\ invoice.status \in {"done", "error"}
        /\ invoice.status = "error" =>
              /\ invoice.error_message \in {"load_workbook failed", "OverflowError", "DatabaseError"}
              /\ returned_rows = 0
              /\ invoiceRows = run.before
        /\ invoice.status = "done" =>
              /\ \A i \in 1..NumCalls : ~SheetRaises(wb[i])
              /\ returned_rows = Len(invoiceRows)

\* the second run failed at a create after the delete, with lines stored by the first
C11_Witness ==
    /\ pc = "returned" /\ invoice.status = "error" /\ run.n = 2
    /\ run.store_failed = "insert" /\ Len(parsed_rows) = 2
    /\ Len(run.before) = 2 /\ invoiceRows = run.before

\* C12: process_invoice_file run twice in a row on the same invoice and the
\* same spreadsheet leaves the stored lines, row_count and processing_price
\* of the first run: the second run deletes the lines of the first and
\* recreates the same ones, none accumulates or is duplicated.
C12_RerunSameLines ==
    (pc = "returned" /\ run.n = 2 /\ run.first.status = "done" /\ invoice.status = "done") =>
        /\ invoiceRows = run.first.rows
        /\ invoice.row_count = run.first.row_count
        /\ invoice.processing_price = run.first.processing_price
        /\ Len(invoiceRows) = invoice.row_count

\* both runs succeeded on a workbook giving two lines
C12_Witness ==
    /\ pc = "returned" /\ run.n = 2 /\ run.first.status = "done" /\ invoice.status = "done"
    /\ Len(run.first.rows) = 2 /\ Len(invoiceRows) = 2 /\ invoice.processing_price = 490000

-----------------------------------------------------------------------------
(* Claims about recalc_profit and invoice_prices (specification SpecProfit) *)

TotalCost(r) ==
    r.purchase_price + r.commission_amount + r.shipping_fee + r.processing_fee + r.tax_amount
    + (IF r.sale_type = "credit" THEN r.platform_dev_revenue ELSE 0)

ProfitAndTax(rows) == [i \in 1..Len(rows) |-> <<rows[i].profit, rows[i].tax_amount>>]

\* C14: a request that runs recalc_profit right after one that ran it, with no
\* purchase price changed in between, leaves the profit and tax_amount of
\* every line as the first application left them.
C14_RecalcTwiceStep == pricesReq'.repeated => ProfitAndTax(invoiceRows') = ProfitAndTax(invoiceRows)
C14_RecalcProfitIdempotent == [][C14_RecalcTwiceStep]_vars

\* recalc_profit ran twice in a row over a priced sale line and an unpriced one
C14_Witness ==
    /\ pricesReq.repeated /\ pricesReq.n = 2
    /\ \E i, j \in 1..Len(invoiceRows) :
          /\ invoiceRows[i].purchase_price = 1000 /\ invoiceRows[i].profit # 0
          /\ invoiceRows[i].tax_amount = 13
          /\ ~invoiceRows[j].is_return /\ invoiceRows[j].purchase_price = 0

\* C15: after every invoice_prices request (web form or price spreadsheet,
\* also one in which some submitted price was rejected), every non-return
\* line with purchase_price > 0 has profit = sale_amount - total_cost for its
\* current purchase_price.
C15_ProfitFollowsPrices ==
    pricesReq.n > 0 =>
        \A i \in 1..Len(invoiceRows) :
            LET r == invoiceRows[i]
                tax == (r.commission_amount + r.processing_fee) \div 10
            IN  (~r.is_return /\ r.purchase_price > 0) =>
                    r.profit = r.sale_amount - TotalCost([r EXCEPT !.tax_amount = tax])

-----------------------------------------------------------------------------
(* normalize_number (services.py 25-68) called on one value *)

Alphabet == {"1", "0", "-", ",", "U+066C", "U+06F2", "U+0663", " ", "a", "."}
RECURSIVE TextsUpTo(_)
TextsUpTo(n) ==
    IF n = 0 THEN {<<>>}
    ELSE LET shorter == TextsUpTo(n - 1)
         IN  shorter \cup {Append(s, c) : s \in shorter, c \in Alphabet}

\* the texts of tests.py 24-47: Persian 123456, Persian 987, Arabic 123, "1,234,567",
\* Persian 123 U+066C 456, "-123", the Persian word for negative then " 123", "abc"
Persian123456 == <<"U+06F1", "U+06F2", "U+06F3", "U+06F4", "U+06F5", "U+06F6">>
Persian987 == <<"U+06F9", "U+06F8", "U+06F7">>
Arabic123 == <<"U+0661", "U+0662", "U+0663">>
Commas1234567 == <<"1", ",", "2", "3", "4", ",", "5", "6", "7">>
Persian123Sep456 == <<"U+06F1", "U+06F2", "U+06F3", "U+066C", "U+06F4", "U+06F5", "U+06F6">>
Minus123 == <<"-", "1", "2", "3">>
NegativeWord123 == <<"U+0645", "U+0646", "U+0641", "U+06CC", " ", "1", "2", "3">>
Abc == <<"a", "b", "c">>
TestTexts == {Persian123456, Persian987, Arabic123, Commas1234567, Persian123Sep456,
              Minus123, NegativeWord123, Abc}

\* values of the other types: None, int, float (in halves), NaN, an infinity
OtherValues == {NoneCell, NanCell, InfCell}
                  \cup {IntCell(n) : n \in {0 - 7, 0, 42}}
                  \cup {FloatCell(t) : t \in {0 - 3, 1, 3, 5, 8}}
NormalizeInputs == {StrCell(s) : s \in TextsUpTo(MaxLen) \cup TestTexts} \cup OtherValues

InitNormalize ==
    /\ pc = "normalize"
    /\ InitMerge /\ InitStore /\ InitIdlePricing /\ InitIdleWallet
    /\ InitIdleRun /\ InitIdlePrices /\ InitIdleCoupon /\ InitIdleSheet /\ InitIdleExport /\ InitIdleTopup
    /\ tiers = TestTiers
    /\ \E val \in NormalizeInputs : norm = [NoNorm EXCEPT !.val = val]

\* services.py 64-68: normalize_number(val) returns or raises
Normalize ==
    /\ pc = "normalize" /\ ~norm.called
    /\ norm' = [norm EXCEPT !.called = TRUE, !.outcome = NormalizeOutcome(norm.val)]
    /\ UNCHANGED <<pc, mergeVars, txRows, returned_rows, invoice, invoiceRows, tiers, priceCall,
                   wallet, walletTx, req, productPrices, run, reader, pricesReq, coupon, ws, export, topup>>

NextNormalize == Normalize

SpecNormalize == InitNormalize /\ [][NextNormalize]_vars

IsDigit(c) == InSeq(AsciiDigit, c) \/ InSeq(PersianDigit, c) \/ InSeq(ArabicDigit, c)
DigitValue(c) ==
    IF InSeq(AsciiDigit, c) THEN IndexIn(AsciiDigit, c) - 1
    ELSE IF InSeq(PersianDigit, c) THEN IndexIn(PersianDigit, c) - 1
    ELSE IndexIn(ArabicDigit, c) - 1
RECURSIVE DecimalValue(_, _)
DecimalValue(s, acc) ==
    IF s = <<>> THEN acc
    ELSE DecimalValue(Tail(s), IF IsDigit(Head(s)) THEN 10 * acc + DigitValue(Head(s)) ELSE acc)
\* the first character left of the text once separators and leading blanks are dropped
RECURSIVE StartsWithMinus(_)
StartsWithMinus(s) ==
    IF s = <<>> THEN FALSE
    ELSE IF Head(s) \in {",", "U+066C", " "} THEN StartsWithMinus(Tail(s))
    ELSE Head(s) = "-"
Returns(val, n) == norm.val = val => norm.outcome = Returned(n)

C17_NegativeWord ==
    (norm.called /\ norm.val = StrCell(NegativeWord123)) => norm.outcome = Returned(0 - 123)

\* C18: normalize_number never raises: for every value (None, int, float with
\* NaN and the infinities, any text) it returns an integer, and 0 when the
\* value cannot be parsed.
C18_NeverRaises ==
    norm.called =>
        /\ ~norm.outcome.raised
        /\ norm.outcome.value \in Int
        /\ norm.val \in {NoneCell, NanCell, InfCell, StrCell(Abc), StrCell(<<>>)} => norm.outcome.value = 0

-----------------------------------------------------------------------------
(* Unusable sheets and rows (specification Spec) *)

Unusable == {"absent", "no_header", "no_columns"}
LogMessageOf(status) ==
    CASE status = "absent" -> "not_found"
      [] status = "no_header" -> "no_header"
      [] status = "no_columns" -> "no_columns"
      [] OTHER -> "rows"

\* every sheet call done so far has its one log entry, and an error state comes from
\* load_workbook alone, before any sheet was looked at
C19_State ==
    /\ \A i \in 1..NumCalls :
          (i < sheetIdx /\ pc # "load" /\ pc # "pending") =>
              /\ i <= Len(log_lines)
              /\ log_lines[i].sheet = SheetCalls[i].sheet_name
              /\ log_lines[i].msg = LogMessageOf(wb[i].status)
              /\ wb[i].status \in Unusable => (log_lines[i].n = 0 /\ wb[i].rows = <<>>)
    /\ invoice.status = "error" =>
          (wb = UnreadWorkbook /\ invoice.error_message = "load_workbook failed")
    /\ pc = "returned" /\ wb # UnreadWorkbook => invoice.status = "done"

\* the data row read by the step has no order id or no variant code
C19_SkippedRowRead ==
    /\ inSheet /\ Len(wb'[sheetIdx].rows) > Len(wb[sheetIdx].rows)
    /\ LET row == wb'[sheetIdx].rows[Len(wb'[sheetIdx].rows)]
       IN  row.order_id = NoneCell \/ row.dkpc = NoneCell

C19_Step ==
    /\ (wb' # wb /\ ~inSheet /\ wb'[sheetIdx].status \in Unusable) =>
          /\ parsed_rows' = parsed_rows /\ rows_map' = rows_map
          /\ Len(log_lines') = Len(log_lines) + 1
          /\ sheetIdx' = sheetIdx + 1 /\ pc' = "parse" /\ invoice' = invoice
    /\ (wb' # wb /\ C19_SkippedRowRead) =>
          /\ parsed_rows' = parsed_rows /\ rows_map' = rows_map
          /\ log_lines' = log_lines /\ count_rows' = count_rows
          /\ pc' = "parse" /\ invoice' = invoice

\* C19: a sheet of the fixed vocabulary that is absent, or has no header row,
\* or lacks the order-id, variant-code or amount column gets one log entry,
\* gives no line and no amount, and the merger goes on to the next sheet; a
\* row without order id or variant code is skipped without a log entry; none
\* of these ends the run in the error state.
C19_UnusableSheetsSkipped == [](C19_State) /\ [][C19_Step]_vars

\* a run that succeeded with one line, past a sheet without header, absent sheets and a
\* skipped row
C19_Witness ==
    /\ Succeeded /\ Len(invoiceRows) = 1 /\ Len(log_lines) = NumCalls
    /\ wb[1].status = "no_header"
    /\ wb[3].status = "ok" /\ Len(wb[3].rows) = 2 /\ wb[3].rows[1].order_id = NoneCell
    /\ log_lines[3].n = 1
    /\ \A i \in 4..NumCalls : wb[i].status = "absent"

-----------------------------------------------------------------------------
(* Readers of an invoice whose lines are being replaced (specification SpecRerun) *)

\* the rows read are the complete set of before the run, or the complete set the run
\* committed
C20_CompleteSet ==
    reader.pc = "done" =>
        \/ reader.rows = reader.old
        \/ /\ reader.at = run.n
           /\ pc = "returned" /\ invoice.status = "done" /\ reader.rows = invoiceRows
        \/ /\ reader.at < run.n
           /\ run.outcomes[reader.at].status = "done"
           /\ reader.rows = run.outcomes[reader.at].rows

\* C20 as stated: a reader of the invoice's lines, concurrent with the
\* replace, sees the complete old set or the complete new set, never an empty
\* or partly inserted one, and never new lines together with an invoice
\* status other than the one committed with them (the reader's status being
\* the one invoice_detail read).
C20_ReaderSeesOldOrNew ==
    /\ C20_CompleteSet
    /\ (reader.pc = "done" /\ reader.rows # reader.old) => reader.status = "done"

\* C20 amended: one query of the invoice's lines returns the complete old set
\* or the complete new set, never an empty or partly inserted one, and new
\* lines are never stored together with an invoice status other than done.
C20_QuerySeesOldOrNew ==
    /\ C20_CompleteSet
    /\ (reader.pc = "done" /\ reader.rows # reader.old) => reader.stored_status = "done"
    /\ invoiceRows # run.before => invoice.status = "done"

\* in the second run a reader read the two old lines between two creates
C20_Witness ==
    /\ reader.pc = "done" /\ reader.at = 2 /\ reader.during = "insert"
    /\ Len(reader.rows) = 2 /\ reader.rows = reader.old
    /\ reader.stored_status = "processing"

-----------------------------------------------------------------------------
(* Titles of the ledger lines (specification Spec) *)

\* the title a data row of sheet call c brings: the title cell of a sales row
\* (services.py 225, 186), nothing for a cost row (services.py 329)
TitleOfRow(c, row) ==
    IF c.kind = "sales" /\ row.title.kind # "none" THEN Str(row.title) ELSE <<>>

\* the titles of the rows read so far that contributed to identity key, in the
\* order the rows were read (sheet calls in the order of the source)
RECURSIVE ContributedTitles(_, _)
ContributedTitles(key, i) ==
    IF i = 0 THEN <<>>
    ELSE LET c == SheetCalls[i]
             mine == SelectSeq(wb[i].rows,
                               LAMBDA row : /\ ~RowSkipped(row)
                                            /\ Key(c.sale_type, row.order_id, row.dkpc) = key)
         IN  ContributedTitles(key, i - 1) \o [j \in 1..Len(mine) |-> TitleOfRow(c, mine[j])]

LastNonEmpty(titles) ==
    LET ne == SelectSeq(titles, LAMBDA t : t # <<>>)
    IN  IF ne = <<>> THEN <<>> ELSE ne[Len(ne)]

\* C21: a line's title is the last non-empty title among the rows that
\* contributed to its identity: a later row with a non-empty title replaces
\* the title, a row with an empty or missing title never does.
C21_TitleLastNonEmptyWins ==
    \A i \in DOMAIN parsed_rows :
        parsed_rows[i].title = LastNonEmpty(ContributedTitles(KeyOf(parsed_rows[i]), NumCalls))

-----------------------------------------------------------------------------
(* Coupon.is_valid_now (models.py 452-475) called on one coupon. A DateTime   *)
(* is a number of days; a field left empty (null=True) is Null.               *)

Times == 0..MaxTime
Uses == 0..MaxUses

Coupons ==
    {[NoCoupon EXCEPT !.is_active = a, !.valid_from = f, !.valid_to = t,
                      !.max_uses = m, !.used_count = u] :
        a \in BOOLEAN, f \in Times \cup {Null}, t \in Times \cup {Null},
        m \in Uses \cup {Null}, u \in Uses}

\* a test that takes a coupon used max_uses times as still valid
is_valid_now_le(c, now) ==
    IF ~c.is_active THEN FALSE
    ELSE IF c.valid_from # Null /\ now < c.valid_from THEN FALSE
    ELSE IF c.valid_to # Null /\ now > c.valid_to THEN FALSE
    ELSE IF c.max_uses # Null /\ c.used_count > c.max_uses THEN FALSE
    ELSE TRUE

\* models.py 452-475; a datetime is always true in a condition, so "self.valid_from
\* and ..." tests that the field is set
is_valid_now(c, now) ==
    IF ~c.is_active THEN FALSE
    ELSE IF c.valid_from # Null /\ now < c.valid_from THEN FALSE
    ELSE IF c.valid_to # Null /\ now > c.valid_to THEN FALSE
    ELSE IF c.max_uses # Null /\ c.used_count >= c.max_uses THEN FALSE
    ELSE TRUE

InitCoupon ==
    /\ pc = "coupon"
    /\ InitMerge /\ InitStore /\ InitIdlePricing /\ InitIdleWallet
    /\ InitIdleRun /\ InitIdlePrices /\ InitIdleNorm /\ InitIdleSheet /\ InitIdleExport /\ InitIdleTopup
    /\ tiers = TestTiers
    /\ coupon \in Coupons

\* timezone.now() is read and is_valid_now returns
IsValidNow ==
    /\ pc = "coupon" /\ ~coupon.called
    /\ \E now \in Times :
          coupon' = [coupon EXCEPT !.called = TRUE, !.now = now,
                                   !.result = is_valid_now(coupon, now)]
    /\ UNCHANGED <<pc, mergeVars, txRows, returned_rows, invoice, invoiceRows, tiers, priceCall,
                   wallet, walletTx, req, productPrices, run, reader, pricesReq, norm, ws, export, topup>>

NextCoupon == IsValidNow

SpecCoupon == InitCoupon /\ [][NextCoupon]_vars

\* C22: is_valid_now returns true exactly when the coupon is active, the
\* current time is not before valid_from (when set), not after valid_to (when
\* set), and used_count is below max_uses (when set); it returns false as soon
\* as one of these conditions fails.
C22_ValidExactlyWhen ==
    coupon.called =>
        (coupon.result <=>
            /\ coupon.is_active
            /\ (coupon.valid_from = Null \/ coupon.now >= coupon.valid_from)
            /\ (coupon.valid_to = Null \/ coupon.now <= coupon.valid_to)
            /\ (coupon.max_uses = Null \/ coupon.used_count < coupon.max_uses))

\* a coupon of every field set, called on its last day, one use left: valid; and
\* the coupons of the tests (used up, inactive) exist among the inputs
C22_Witness ==
    /\ coupon.called /\ coupon.result
    /\ coupon.valid_from # Null /\ coupon.valid_to # Null /\ coupon.max_uses # Null
    /\ coupon.now = coupon.valid_to /\ coupon.valid_from < coupon.valid_to
    /\ coupon.used_count = coupon.max_uses - 1

-----------------------------------------------------------------------------
(* _get_header_row and _find_col (services.py 98-120), and one call of        *)
(* _read_sales_sheet("sales", sale_type="cash") on a sheet given by all its   *)
(* rows, the rows above the data included. A row is the sequence of its cells. *)

\* str.lower() on the letters the headers and keywords use (a Persian letter has no case)
UpperCase == <<"A", "B", "C", "D", "K", "P", "R", "T", "X", "Y">>
LowerCase == <<"a", "b", "c", "d", "k", "p", "r", "t", "x", "y">>
LowerChar(c) == IF InSeq(UpperCase, c) THEN LowerCase[IndexIn(UpperCase, c)] ELSE c
Lower(s) == [i \in 1..Len(s) |-> LowerChar(s[i])]

\* "sub in s" of two str
IsSubstring(sub, s) ==
    \E o \in 0..(Len(s) - Len(sub)) : SubSeq(s, o + 1, o + Len(sub)) = sub

\* the keyword lists of services.py 210-213
KwOrderNumber == <<"U+0634", "U+0645", "U+0627", "U+0631", "U+0647", " ", "U+0633", "U+0641", "U+0627", "U+0631", "U+0634">>
KwOrderId == <<"U+0634", "U+0646", "U+0627", "U+0633", "U+0647", " ", "U+0633", "U+0641", "U+0627", "U+0631", "U+0634">>
KwVariantCode == <<"U+06A9", "U+062F", " ", "U+062A", "U+0646", "U+0648", "U+0639">>
KwDkpcLower == <<"d", "k", "p", "c">>
KwDkpcUpper == <<"D", "K", "P", "C">>
KwVariantTitle == <<"U+0639", "U+0646", "U+0648", "U+0627", "U+0646", " ", "U+062A", "U+0646", "U+0648", "U+0639">>
KwProductTitle == <<"U+0639", "U+0646", "U+0648", "U+0627", "U+0646", " ", "U+06A9", "U+0627", "U+0644", "U+0627">>
KwFinalAmount == <<"U+0645", "U+0628", "U+0644", "U+063A", " ", "U+0646", "U+0647", "U+0627", "U+06CC", "U+06CC">>
KwTotalAmount == <<"U+0645", "U+0628", "U+0644", "U+063A", " ", "U+06A9", "U+0644">>
KwAmount == <<"U+0645", "U+0628", "U+0644", "U+063A">>

OrderKeywords == <<KwOrderNumber, KwOrderId>>
DkpcKeywords == <<KwVariantCode, KwDkpcLower, KwDkpcUpper>>
TitleKeywords == <<KwVariantTitle, KwProductTitle>>
AmountKeywords == <<KwFinalAmount, KwTotalAmount, KwAmount>>

\* services.py 103: iter_rows(min_row=1, max_row=10)
HeaderScanRows == 10
\* services.py 105: len(texts) >= 3
MinHeaderTexts == 3

\* services.py 104: the cells of a row that are not None and not blank
Texts(row) == SelectSeq(row, LAMBDA c : c.kind # "none" /\ Strip(Str(c)) # <<>>)

\* services.py 103-107, from row i on
RECURSIVE HeaderFrom(_, _)
HeaderFrom(rows, i) ==
    IF i > Len(rows) \/ i > HeaderScanRows THEN <<>>
    ELSE IF Len(Texts(rows[i])) >= MinHeaderTexts
         THEN [j \in 1..Len(rows[i]) |->
                  IF rows[i][j].kind # "none" THEN Strip(Str(rows[i][j])) ELSE <<>>]
         ELSE HeaderFrom(rows, i + 1)

_get_header_row(rows) == HeaderFrom(rows, 1)

\* _find_col returns None
NoneIdx == 0 - 1

\* a lookup that tries the keywords in their order, each over all headers
_find_col_by_keyword(headers, keywords) ==
    LET Hit(k) == {i \in 0..(Len(headers) - 1) :
                      IsSubstring(Lower(keywords[k]), Strip(Lower(headers[i + 1])))}
        RECURSIVE Try(_)
        Try(k) == IF k > Len(keywords) THEN NoneIdx
                  ELSE IF Hit(k) # {} THEN CHOOSE i \in Hit(k) : \A j \in Hit(k) : i <= j
                  ELSE Try(k + 1)
    IN  Try(1)

\* services.py 115-120, from index idx on (indices count from 0, as enumerate does)
RECURSIVE FindColFrom(_, _, _)
FindColFrom(headers, keywords, idx) ==
    IF idx >= Len(headers) THEN NoneIdx
    ELSE LET name_lower == Strip(Lower(headers[idx + 1])) IN
         IF \E k \in 1..Len(keywords) : IsSubstring(Lower(keywords[k]), name_lower)
         THEN idx
         ELSE FindColFrom(headers, keywords, idx + 1)

_find_col(headers, keywords) == FindColFrom(headers, keywords, 0)

\* header cells: the keywords as a sheet spells them, with blanks around, in mixed case
HdrOrderNumber == StrCell(KwOrderNumber)
HdrOrderId == StrCell(KwOrderId)
HdrVariantCode == StrCell(<<" ">> \o KwVariantCode \o <<" ">>)
HdrDkpc == StrCell(<<"D", "k", "p", "c">>)
HdrProductTitle == StrCell(KwProductTitle)
HdrAmount == StrCell(KwAmount)
HdrTotalAmount == StrCell(KwTotalAmount)
HdrFinalAmount == StrCell(KwFinalAmount)
HdrDate == StrCell(<<"U+062A", "U+0627", "U+0631", "U+06CC", "U+062E">>)

\* rows of a sheet: a report title, a note of two cells, an empty row, three header
\* rows (the third without an amount column), three data rows
TitleRow == <<StrCell(<<"R">>), NoneCell, NoneCell, NoneCell>>
NoteRow == <<StrCell(<<"X">>), StrCell(<<"Y">>), NoneCell, NoneCell>>
EmptyRow == <<NoneCell, NoneCell, NoneCell, NoneCell>>
HeaderRow1 == <<HdrOrderNumber, HdrVariantCode, HdrProductTitle, HdrAmount>>
HeaderRow2 == <<HdrDkpc, HdrOrderId, HdrTotalAmount, HdrFinalAmount>>
HeaderRow3 == <<HdrOrderNumber, HdrVariantCode, HdrProductTitle, HdrDate>>
DataRow1 == <<IntCell(7), DkpcA, StrCell(<<"T">>), Amount1234>>
DataRow2 == <<IntCell(7), DkpcB, NoneCell, Amount100>>
DataRow3 == <<NoneCell, DkpcA, NoneCell, Amount100>>

SheetRowKinds == {TitleRow, NoteRow, EmptyRow, HeaderRow1, HeaderRow2, HeaderRow3,
                  DataRow1, DataRow2, DataRow3}

\* the header on the last row _get_header_row scans, and on the row after it
HeaderOnLastScanned == [i \in 1..(HeaderScanRows - 1) |-> TitleRow] \o <<HeaderRow1, DataRow1>>
HeaderAfterScanned == [i \in 1..HeaderScanRows |-> TitleRow] \o <<HeaderRow1, DataRow1>>

Sheets == SeqsUpTo(SheetRowKinds, MaxSheetRows) \cup {HeaderOnLastScanned, HeaderAfterScanned}

SheetUnchanged == <<pc, wb, sheetIdx, inSheet, wb_closed, txRows, returned_rows, invoice, invoiceRows,
                    tiers, priceCall, wallet, walletTx, req, productPrices, run, reader, pricesReq,
                    norm, coupon, export, topup>>

SalesCall == SheetCalls[1]

InitSheet ==
    /\ pc = "parse"
    /\ InitMerge /\ InitStore /\ InitIdlePricing /\ InitIdleWallet
    /\ InitIdleRun /\ InitIdlePrices /\ InitIdleNorm /\ InitIdleCoupon /\ InitIdleExport /\ InitIdleTopup
    /\ tiers = TestTiers
    /\ \E rows \in Sheets : ws = [NoSheet EXCEPT !.rows = rows, !.stage = "new"]

\* services.py 204-208: _get_header_row; no header, the sheet is logged and left
GetHeaderRow ==
    /\ ws.stage = "new"
    /\ LET headers == _get_header_row(ws.rows) IN
       IF headers = <<>>
       THEN /\ ws' = [ws EXCEPT !.stage = "skipped"]
            /\ log_lines' = Append(log_lines, LogEntry(SalesCall.sheet_name, "no_header", 0))
       ELSE /\ ws' = [ws EXCEPT !.stage = "header", !.headers = headers]
            /\ UNCHANGED log_lines
    /\ UNCHANGED <<SheetUnchanged, count_rows, rows_map, parsed_rows>>

\* services.py 210-221: the four _find_col calls; a key column missing, the sheet is
\* logged and left
FindCols ==
    /\ ws.stage = "header"
    /\ LET idx_order == _find_col(ws.headers, OrderKeywords)
           idx_dkpc == _find_col(ws.headers, DkpcKeywords)
           idx_title == _find_col(ws.headers, TitleKeywords)
           idx_amount == _find_col(ws.headers, AmountKeywords)
           found == [ws EXCEPT !.idx_order = idx_order, !.idx_dkpc = idx_dkpc,
                                  !.idx_title = idx_title, !.idx_amount = idx_amount]
       IN  IF idx_order = NoneIdx \/ idx_dkpc = NoneIdx \/ idx_amount = NoneIdx
           THEN /\ ws' = [found EXCEPT !.stage = "skipped"]
                /\ log_lines' = Append(log_lines, LogEntry(SalesCall.sheet_name, "no_columns", 0))
                /\ UNCHANGED count_rows
           ELSE /\ ws' = [found EXCEPT !.stage = "rows", !.next = 2]
                /\ count_rows' = 0
                /\ UNCHANGED log_lines
    /\ UNCHANGED <<SheetUnchanged, rows_map, parsed_rows>>

\* services.py 223-226: the cells of a row the loop takes
CellsOf(sh, r) ==
    Row(r[sh.idx_order + 1], r[sh.idx_dkpc + 1],
        IF sh.idx_title # NoneIdx THEN r[sh.idx_title + 1] ELSE StrCell(<<>>),
        r[sh.idx_amount + 1])

\* services.py 222-253: one iteration of iter_rows(min_row=2)
SalesSheetRow ==
    /\ ws.stage = "rows" /\ ws.next <= Len(ws.rows)
    /\ LET row == CellsOf(ws, ws.rows[ws.next])
           m == read_sales_row(Merger, SalesCall.sale_type, SalesCall.is_return_sheet, row)
       IN  /\ rows_map' = m.rows_map
           /\ parsed_rows' = m.parsed_rows
           /\ count_rows' = IF RowSkipped(row) THEN count_rows ELSE count_rows + 1
    /\ ws' = [ws EXCEPT !.next = @ + 1]
    /\ UNCHANGED <<SheetUnchanged, log_lines>>

\* services.py 255-257: the rows are exhausted
SalesSheetEnd ==
    /\ ws.stage = "rows" /\ ws.next > Len(ws.rows)
    /\ ws' = [ws EXCEPT !.stage = "done"]
    /\ log_lines' = Append(log_lines, LogEntry(SalesCall.sheet_name, "rows", count_rows))
    /\ UNCHANGED <<SheetUnchanged, count_rows, rows_map, parsed_rows>>

NextSheet == GetHeaderRow \/ FindCols \/ SalesSheetRow \/ SalesSheetEnd

SpecSheet == InitSheet /\ [][NextSheet]_vars

\* the row on which the header was found: the first of the scanned rows with at
\* least three texts
IsHeaderRow(rows, k) ==
    /\ k \in 1..Len(rows) /\ k <= HeaderScanRows
    /\ Len(Texts(rows[k])) >= MinHeaderTexts
    /\ \A j \in 1..(k - 1) : Len(Texts(rows[j])) < MinHeaderTexts
HeaderAt(rows) == CHOOSE k \in 1..Len(rows) : IsHeaderRow(rows, k)

\* the rows that follow the header row, as the loop takes their cells
RowsAfterHeader ==
    LET k == HeaderAt(ws.rows)
    IN  [j \in 1..(Len(ws.rows) - k) |-> CellsOf(ws, ws.rows[k + j])]

\* C23: only the rows that follow the located header row are folded as data
\* rows: with the header found at row k, neither the header row nor any row
\* above it creates a line, contributes an amount or counts towards the row
\* count.
C23_OnlyRowsAfterHeaderFolded ==
    ws.stage = "done" =>
        /\ Merger = FoldRows(EmptyMerge, SalesCall, RowsAfterHeader)
        /\ count_rows = CountRead(RowsAfterHeader)
        /\ log_lines[Len(log_lines)] = LogEntry(SalesCall.sheet_name, "rows", CountRead(RowsAfterHeader))

-----------------------------------------------------------------------------
(* export_invoice_excel (views.py 553-669) next to invoice_pay and the admin  *)
(* actions that set is_paid (admin.py 25-35), on a processed invoice.         *)

ExportUnchanged == <<pc, mergeVars, txRows, returned_rows, invoiceRows, tiers, productPrices, priceCall,
                     wallet, walletTx, req, run, reader, pricesReq, norm, coupon, ws, topup>>

\* an export that does not test is_paid
ExportInvoiceExcelUngated ==
    /\ export.n < MaxExports
    /\ export' = [export EXCEPT !.n = @ + 1, !.workbooks = @ + 1, !.last = "workbook"]
    /\ UNCHANGED <<ExportUnchanged, invoice>>

\* views.py 566-574: the invoice is read; not paid, the request is redirected to
\* invoice_pay; views.py 576-669: paid, the workbook is built and returned
ExportInvoiceExcel ==
    /\ export.n < MaxExports
    /\ export' = IF ~invoice.is_paid
                 THEN [export EXCEPT !.n = @ + 1, !.redirects = @ + 1, !.last = "redirect_pay"]
                 ELSE [export EXCEPT !.n = @ + 1, !.workbooks = @ + 1, !.last = "workbook"]
    /\ UNCHANGED <<ExportUnchanged, invoice>>

\* admin.py 25-29: the admin action that marks the invoice paid
AdminMarkPaid ==
    /\ export.admin < MaxAdminActions
    /\ invoice' = [invoice EXCEPT !.is_paid = TRUE]
    /\ export' = [export EXCEPT !.admin = @ + 1, !.admin_paid = @ + 1]
    /\ UNCHANGED ExportUnchanged

\* admin.py 31-35: the admin action that marks the invoice unpaid
AdminMarkUnpaid ==
    /\ export.admin < MaxAdminActions
    /\ invoice' = [invoice EXCEPT !.is_paid = FALSE]
    /\ export' = [export EXCEPT !.admin = @ + 1]
    /\ UNCHANGED ExportUnchanged

InitExport ==
    /\ pc = "paying"
    /\ InitMerge /\ InitIdlePricing
    /\ txRows = <<>> /\ returned_rows = 1
    /\ tiers = {PayTier}
    /\ invoiceRows = <<InvoiceRowOf(SaleLine)>>
    /\ \E q \in OrderByMinRows(tiers) : \E price \in {0, calculate_price_for_row_count(q, 1)} :
          invoice = [NewInvoice EXCEPT !.status = "done", !.row_count = 1, !.processing_price = price]
    /\ \E b \in OpeningBalances : wallet = [balance |-> b, opening |-> b, locked_by |-> 0]
    /\ walletTx = <<>>
    /\ productPrices = <<>>
    /\ InitIdleRun /\ InitIdlePrices /\ InitIdleNorm /\ InitIdleCoupon /\ InitIdleSheet /\ InitIdleExport /\ InitIdleTopup
    /\ req = [r \in Requests |-> NewRequest]

NextExport ==
    \/ NextPay
    \/ ExportInvoiceExcel \/ AdminMarkPaid \/ AdminMarkUnpaid

SpecExport == InitExport /\ [][NextExport]_vars

\* an export request is served in this step
C24_ExportServed == export'.n = export.n + 1

C24_State ==
    export.workbooks > 0 => (Debits # {} \/ export.admin_paid > 0)

C24_Step ==
    C24_ExportServed =>
        IF invoice.is_paid
        THEN export'.last = "workbook"
        ELSE /\ export'.last = "redirect_pay"
             /\ export'.workbooks = export.workbooks
             /\ export'.redirects = export.redirects + 1

\* C24: an export workbook is produced only after the invoice has been paid:
\* in every sequence of requests, export_invoice_excel on an invoice whose
\* is_paid is false produces no workbook and redirects to the payment page, so
\* no export precedes the payment (the step that set is_paid).
C24_ExportOnlyAfterPaid == [](C24_State) /\ [][C24_Step]_vars

\* an export refused before the payment, and a workbook after invoice_pay debited
C24_Witness ==
    /\ export.redirects = 1 /\ export.workbooks = 1 /\ export.last = "workbook"
    /\ export.admin_paid = 0 /\ Cardinality(Debits) = 1 /\ invoice.is_paid

\* the indices (from 0) of the headers whose lower-cased text contains a keyword
MatchingCols(headers, keywords) ==
    {i \in 0..(Len(headers) - 1) :
        \E k \in 1..Len(keywords) : IsSubstring(Lower(keywords[k]), Lower(headers[i + 1]))}

SmallestMatch(headers, keywords) ==
    IF MatchingCols(headers, keywords) = {} THEN NoneIdx
    ELSE CHOOSE i \in MatchingCols(headers, keywords) :
            \A j \in MatchingCols(headers, keywords) : i <= j

ColumnsResolved == ws.stage \in {"rows", "done"} \/ (ws.stage = "skipped" /\ ws.headers # <<>>)

\* C25: _find_col returns the smallest index i such that the lower-cased
\* header i contains one of the keywords (case-insensitive, whatever the order
\* of the keywords), and none when no header contains any; a none result for
\* order id, variant code or amount makes the caller skip the whole sheet (a
\* none result for the title does not).
C25_FindColSmallestIndex ==
    ColumnsResolved =>
        /\ ws.idx_order = SmallestMatch(ws.headers, OrderKeywords)
        /\ ws.idx_dkpc = SmallestMatch(ws.headers, DkpcKeywords)
        /\ ws.idx_title = SmallestMatch(ws.headers, TitleKeywords)
        /\ ws.idx_amount = SmallestMatch(ws.headers, AmountKeywords)
        /\ (ws.idx_order = NoneIdx \/ ws.idx_dkpc = NoneIdx \/ ws.idx_amount = NoneIdx)
              <=> ws.stage = "skipped"
        /\ ws.stage = "skipped" =>
              /\ parsed_rows = <<>> /\ rows_map = <<>> /\ count_rows = 0
              /\ log_lines = <<LogEntry(SalesCall.sheet_name, "no_columns", 0)>>

\* the header "Dkpc" found by the keyword "dkpc", the total amount of column 2 taken
\* although the first keyword matches column 3, no title column, and the rows read
C25_Witness ==
    /\ ws.stage = "done" /\ parsed_rows # <<>>
    /\ ws.headers[1] = <<"D", "k", "p", "c">> /\ ws.idx_dkpc = 0
    /\ ws.idx_order = 1
    /\ ws.idx_amount = 2 /\ IsSubstring(KwFinalAmount, ws.headers[4])
    /\ ws.idx_title = NoneIdx

-----------------------------------------------------------------------------
(* Lines created by cost rows (specification Spec) *)

CostFields == {"commission_amount", "shipping_fee", "processing_fee", "platform_dev_revenue"}

\* the step reads a row of a cost sheet that is not skipped
C26_CostRowRead ==
    /\ inSheet /\ SheetCalls[sheetIdx].kind # "sales"
    /\ Len(wb'[sheetIdx].rows) = Len(wb[sheetIdx].rows) + 1
    /\ ~RowSkipped(wb'[sheetIdx].rows[Len(wb'[sheetIdx].rows)])

C26_Step ==
    C26_CostRowRead =>
        LET c == SheetCalls[sheetIdx]
            row == wb'[sheetIdx].rows[Len(wb'[sheetIdx].rows)]
            key == Key(c.sale_type, row.order_id, row.dkpc)
            signed == IF c.is_return_sheet THEN 0 - _normalize_number(row.amount_raw)
                      ELSE _normalize_number(row.amount_raw)
            f == CostField(c.kind)
            n == Len(parsed_rows)
        IN  /\ count_rows' = count_rows + 1
            /\ ~HasKey(Merger, key) =>
                  /\ Len(parsed_rows') = n + 1
                  /\ \A i \in 1..n : parsed_rows'[i] = parsed_rows[i]
                  /\ KeyOf(parsed_rows'[n + 1]) = key
                  /\ ~parsed_rows'[n + 1].is_return
                  /\ parsed_rows'[n + 1].sale_amount = 0
                  /\ parsed_rows'[n + 1].title = <<>>
                  /\ parsed_rows'[n + 1][f] = signed
                  /\ \A g \in CostFields \ {f} : parsed_rows'[n + 1][g] = 0
            /\ HasKey(Merger, key) =>
                  /\ Len(parsed_rows') = n
                  /\ \A i \in 1..n :
                        IF KeyOf(parsed_rows[i]) = key
                        THEN parsed_rows'[i] = [parsed_rows[i] EXCEPT ![f] = @ + signed]
                        ELSE parsed_rows'[i] = parsed_rows[i]

\* the lines the merger holds are the lines counted and stored
C26_State ==
    Succeeded => /\ invoice.row_count = Len(parsed_rows)
                 /\ returned_rows = Len(parsed_rows)
                 /\ Len(invoiceRows) = Len(parsed_rows)

\* C26: a cost-sheet row for an identity that has no line yet creates a new
\* line with is_return false, sale_amount 0 and empty title, appended to the
\* line sequence (so it counts towards the row count), and accumulates on it
\* the signed cost (the amount times -1 for a reversal sheet); when the line
\* exists, no line is created.
C26_CostRowCreatesLine == [](C26_State) /\ [][C26_Step]_vars

\* a row of the commission reversal sheet created the only line of the run
C26_Witness ==
    /\ Succeeded /\ invoice.row_count = 1
    /\ wb[7].rows # <<>> /\ SheetCalls[7].is_return_sheet
    /\ Len(parsed_rows) = 1
    /\ ~parsed_rows[1].is_return /\ parsed_rows[1].sale_amount = 0
    /\ parsed_rows[1].commission_amount < 0

-----------------------------------------------------------------------------
(* The workbook of parse_invoice_excel (specification SpecRerun) *)

LoadFailed == invoice.status = "error" /\ invoice.error_message = "load_workbook failed"

\* the close() calls made on the workbook of the run, by the position of the run
C27_State ==
    /\ pc \in {"pending", "load", "parse"} => wb_closed = 0
    /\ pc \in {"atomic", "insert"} => wb_closed = 1
    /\ pc = "returned" => wb_closed = IF LoadFailed THEN 0 ELSE 1

\* a sheet call is made only on the open workbook and leaves it open; the workbook
\* is closed by the step that leaves parse_invoice_excel, by return or by exception
C27_Step ==
    /\ sheetIdx' = sheetIdx + 1 => (wb_closed = 0 /\ wb_closed' = 0)
    /\ (pc = "parse" /\ pc' # "parse") <=> wb_closed' = wb_closed + 1
    /\ (rows_map' # rows_map /\ pc' # "pending") => wb_closed = 0

\* C27: once parse_invoice_excel has opened the workbook, the workbook is
\* closed exactly once on every exit path, whether the merge returns or an
\* exception is raised while a sheet is read, and no sheet is read after the
\* close.
C27_WorkbookClosedOnce == [](C27_State) /\ [][C27_Step]_vars

\* a row of the commission sheet raised after the sales sheet gave two lines; the
\* sheets after it were not read
C27_Witness ==
    /\ pc = "returned" /\ invoice.error_message = "OverflowError"
    /\ wb_closed = 1 /\ sheetIdx = 5 /\ Len(parsed_rows) = 2

-----------------------------------------------------------------------------
(* Debits of one invoice (specification SpecPay) *)

DebitedTotal ==
    LET RECURSIVE Sum(_)
        Sum(i) == IF i = 0 THEN 0
                  ELSE (IF walletTx[i].type = "debit" THEN walletTx[i].amount ELSE 0) + Sum(i - 1)
    IN  Sum(Len(walletTx))

\* C28: after any sequence or interleaving of invoice_pay requests, also
\* concurrent ones for the same invoice with a balance that covers the fee
\* several times, the invoice has at most one debit WalletTransaction and the
\* wallet is debited the invoice's processing_price at most once.
C28_AtMostOneDebit ==
    /\ Cardinality(Debits) <= 1
    /\ DebitedTotal <= invoice.processing_price

-----------------------------------------------------------------------------
(* wallet_topup_view (views.py 484-526) next to invoice_pay, on one wallet.   *)
(* The wallet is read once, before the transaction; the save inside the       *)
(* transaction writes the balance computed from that read.                    *)

Topups == 1..NumTopups

\* request.POST["amount"] as typed: nothing, "-5", "500", "1,000,000"
TopupTexts == {StrCell(<<>>), StrCell(<<"-", "5">>), StrCell(<<"5", "0", "0">>),
               StrCell(<<"1", ",", "0", "0", "0", ",", "0", "0", "0">>)}

NewTopup == [pc |-> "new", balance |-> 0, amount |-> 0, outcome |-> "none"]

TopupUnchanged == <<pc, mergeVars, txRows, returned_rows, invoice, invoiceRows, tiers, productPrices,
                    priceCall, req, run, reader, pricesReq, norm, coupon, ws, export>>

TopupFinish(t, outcome) == [topup EXCEPT ![t].pc = "done", ![t].outcome = outcome]

\* the holder of the wallet row's lock, for a top-up request
TopupLock(t) == NumRequests + t

\* views.py 491-495: the wallet is read; the amount of a POST is normalized
TopupRead(t) ==
    /\ topup[t].pc = "new"
    /\ \E raw \in TopupTexts :
          topup' = [topup EXCEPT ![t].pc = "read", ![t].balance = wallet.balance,
                                 ![t].amount = NormalizeOutcome(raw).value]
    /\ UNCHANGED <<TopupUnchanged, wallet, walletTx>>

\* views.py 520-526: a GET renders the form
TopupGet(t) ==
    /\ topup[t].pc = "read"
    /\ topup' = TopupFinish(t, "render")
    /\ UNCHANGED <<TopupUnchanged, wallet, walletTx>>

\* views.py 497-499: the amount is not positive
TopupInvalid(t) ==
    /\ topup[t].pc = "read" /\ topup[t].amount <= 0
    /\ topup' = TopupFinish(t, "invalid")
    /\ UNCHANGED <<TopupUnchanged, wallet, walletTx>>

\* views.py 501-503: wallet.balance += amount on the wallet read at 491, and the save;
\* the UPDATE takes the wallet row's lock
TopupCredit(t) ==
    /\ topup[t].pc = "read" /\ topup[t].amount > 0
    /\ wallet.locked_by = 0
    /\ wallet' = [wallet EXCEPT !.locked_by = TopupLock(t)]
    /\ topup' = [topup EXCEPT ![t].pc = "credited", ![t].balance = @ + topup[t].amount]
    /\ UNCHANGED <<TopupUnchanged, walletTx>>

\* views.py 505-518: the credit transaction is created, all committed
TopupCommit(t) ==
    /\ topup[t].pc = "credited"
    /\ wallet' = [wallet EXCEPT !.balance = topup[t].balance, !.locked_by = 0]
    /\ walletTx' = Append(walletTx, [type |-> "credit", amount |-> topup[t].amount, by |-> TopupLock(t)])
    /\ topup' = TopupFinish(t, "charged")
    /\ UNCHANGED TopupUnchanged

InitWallet ==
    /\ pc = "paying"
    /\ InitMerge /\ InitIdlePricing
    /\ txRows = <<>> /\ returned_rows = 1
    /\ tiers = {PayTier}
    /\ invoiceRows = <<InvoiceRowOf(SaleLine)>>
    /\ \E q \in OrderByMinRows(tiers) : \E price \in {0, calculate_price_for_row_count(q, 1)} :
          invoice = [NewInvoice EXCEPT !.status = "done", !.row_count = 1, !.processing_price = price]
    /\ \E b \in OpeningBalances : wallet = [balance |-> b, opening |-> b, locked_by |-> 0]
    /\ walletTx = <<>>
    /\ productPrices = <<>>
    /\ InitIdleRun /\ InitIdlePrices /\ InitIdleNorm /\ InitIdleCoupon /\ InitIdleSheet /\ InitIdleExport
    /\ req = [r \in Requests |-> NewRequest]
    /\ topup = [t \in Topups |-> NewTopup]

NextWallet ==
    \/ NextPay
    \/ \E t \in Topups :
          \/ TopupRead(t) \/ TopupGet(t) \/ TopupInvalid(t) \/ TopupCredit(t) \/ TopupCommit(t)

SpecWallet == InitWallet /\ [][NextWallet]_vars

CreditedTotal ==
    LET RECURSIVE Sum(_)
        Sum(i) == IF i = 0 THEN 0
                  ELSE (IF walletTx[i].type = "credit" THEN walletTx[i].amount ELSE 0) + Sum(i - 1)
    IN  Sum(Len(walletTx))

\* C29: after any sequence or interleaving of wallet top-ups and invoice
\* payments on one wallet, the wallet's balance equals its initial balance
\* plus the sum of its credit transactions minus the sum of its debit
\* transactions: no update of the balance is lost.
C29_BalanceMatchesLedger ==
    wallet.balance = wallet.opening + CreditedTotal - DebitedTotal

-----------------------------------------------------------------------------
(* What process_invoice_file leaves on the invoice (specification SpecRerun) *)

\* C30: whenever process_invoice_file returns, the invoice's status is done or
\* error, never processing or pending; and when it is done, row_count is the
\* number of the stored ledger lines (return lines included) and
\* processing_price is calculate_price_for_row_count(row_count) for the tier
\* table of the run.
C30_ReturnsDoneOrError ==
    pc = "returned" =>
        /\ invoice.status \in {"done", "error"}
        /\ invoice.status = "done" =>
              /\ invoice.row_count = Len(invoiceRows)
              /\ returned_rows = invoice.row_count
              /\ \A q \in OrderByMinRows(tiers) :
                    invoice.processing_price = calculate_price_for_row_count(q, invoice.row_count)

\* a run that stored one return line, priced by the first tier of the small table
C30_Witness ==
    /\ pc = "returned" /\ invoice.status = "done" /\ tiers = SmallTiers
    /\ invoice.row_count = 1 /\ Len(invoiceRows) = 1 /\ invoiceRows[1].is_return
    /\ invoice.processing_price = 490000

====
